---- MODULE Spec2Model ----
(***************************************************************************)
(* Lane control and motor assist of the AFC stepper (extras/AFC_stepper.py) *)
(* and its wheel sensor (extras/wheel_sensor.py).                           *)
(*                                                                          *)
(* Units.  Time is counted in ticks of 0.1 s, the polling pause of the      *)
(* reactor loops.  A motor command ("value" of assist) is counted in        *)
(* twentieths, the 0.05 step of the tension regulation, so 1.0 is DutyOne. *)
(* RPM is kept in whole revolutions per minute.                             *)
(*                                                                          *)
(* Scheduling.  Klipper's reactor runs greenlets cooperatively: the code    *)
(* between two reactor.pause calls is one uninterrupted run.  cur names the *)
(* greenlet that is running ("none" while the reactor is idle); a greenlet  *)
(* gives the processor away only where the source pauses.                   *)
(***************************************************************************)
EXTENDS Integers, Sequences, FiniteSets, TLC

\* ---------------------------------------------------------------- constants
\* reactor.pause(monotonic() + 0.1): ticks per second
TicksPerSec == 10
\* rpm = (pulses / pulses_per_rev) / dt * 60.0
SecPerMin == 60
\* while (monotonic() - start_time) < 2.0, in ticks
BaselineTimeout == 20
\* 1.0 as a motor command, in steps of 0.05 (pwm_val - 0.05, pwm_val + 0.05)
DutyOne == 20
\* tension_baseline_min_rpm default 5.0
tension_baseline_min_rpm == 5
\* tension_drop_fraction default 0.75, in percent
tension_drop_percent == 75
\* wheel_follow_min_rpm default 1.0
wheel_follow_min_rpm == 1
\* wheel_follow_pwm default 0.3, in twentieths
wheel_follow_pwm == 6
\* pulses_per_rev default 1.0
pulses_per_rev == 1
\* if delta_time < 1.0: break, in ticks
DebounceTicks == 10
\* if x > 40
RetryLimit == 40
\* self.move(10, 500, 400): the retry move
RetryDistance == 10
RetrySpeed == 500
RetryAccel == 400
\* self.dist_hub >= 200, self.dist_hub > 200
HubThreshold == 200
\* dist_hub default 60
dist_hub_default == 60

\* ------------------------------------------------------------------- bounds
\* tension_max_time (a configuration value), in ticks
TensionMaxTime == 4
\* n20_break_delay_time (a configuration value), in ticks
BrakeDelay == 2
\* a rewind is requested only while it leaves at most this much filament on
\* the spool, in mg over the empty spool
MaxFilament == 45
\* the longest interval between two sensor samples that is told apart
MaxDt == 3
\* rising edges the wheel can deliver between two samples
MaxPulses == 2
\* significant bits of a float
MantissaBits == 18
\* calls of a function that is exercised on its own
MaxCalls == 3
\* a clock read that follows another within the same tick sees, when the clock
\* advanced at all, this fraction of a tick (1 / SubTicks)
SubTicks == 100

None == -1

Movers == {"cb", "cmd"}
Procs == Movers \cup {"follow"}

Min(a, b) == IF a < b THEN a ELSE b
Max(a, b) == IF a > b THEN a ELSE b
Abs(a) == IF a < 0 THEN -a ELSE a

VARIABLES
  cfg,                  \* the lane's configuration, fixed after construction
  cur,                  \* the running greenlet, or "none"
  pc,                   \* each greenlet's position
  ret,                  \* where brake_n20 returns to
  wake,                 \* ticks until the waketime of each paused greenlet / timer
  pulse_count,          \* StandaloneWheelSensor._pulse_count
  owed,                 \* rising edges delivered and not yet taken by a get_rpm
  prev_state,           \* StandaloneWheelSensor._prev_state
  since_sample,         \* reactor.monotonic() - StandaloneWheelSensor._last_time
  pin,                  \* last value written to each output channel
  wheel_follow_paused,  \* AFCExtruderStepper._wheel_follow_paused
  assist_activate,      \* AFCExtruderStepper.assist_activate
  remaining_weight,     \* AFCExtruderStepper.remaining_weight
  arg,                  \* arguments and locals of each mover's move()
  rw,                   \* locals of each mover's rewind_until_tension
  eventtime,            \* reactor.monotonic() - eventtime of the running _wheel_follow_handler
  hist,                 \* observations of the run (what was commanded, by whom)
  lane,                 \* the lane's sensors, status and the locals of prep_callback
  obs,                  \* what the running prep_callback has asked of its collaborators
  probe                 \* the calls made to a function that is exercised on its own

vars == <<cfg, cur, pc, ret, wake, pulse_count, owed, prev_state, since_sample, pin,
          wheel_follow_paused, assist_activate, remaining_weight, arg, rw, eventtime,
          hist, lane, obs, probe>>

\* ------------------------------------------------------------ configuration
\* max_move_dis (a configuration value), in mm: the value of the lanes that
\* are followed, and the values a configuration can give it
max_move_dis == 10
MoveLimits == {4, max_move_dis}
\* filament mass per mm moved, in mg: pi * (1.75 / 2)^2 * 1.24, rounded
MgPerMm == 3
\* empty_spool_weight default 190 g, in mg
empty_spool_weight == 190000
\* spool_weight default 1000 g, in mg
spool_weight == 1000000
\* spool_inner_diameter default 100 mm
inner_diameter == 100
\* assist_max_motor_rpm default 500
max_motor_rpm == 500
\* rwd_speed_multiplier default 0.5, in tenths
rwd_speed_multi == 5
\* fwd_speed_multiplier default 0.5, in tenths
fwd_speed_multi == 5
\* short_moves_speed, short_moves_accel, long_moves_speed, long_moves_accel
\* (configuration values of the unit)
short_moves_speed == 50
short_moves_accel == 400
long_moves_speed == 150
long_moves_accel == 250

\* The values a lane's configuration can take.  rwd, fwd, enb: the output
\* channel is bound; sensor: a wheel_sensor is bound; follow:
\* wheel_follow_assist; is_pwm, scale: of the AFCassistMotor channels;
\* max_move_dis: the longest segment of a move.
Configs ==
  [rwd : BOOLEAN, fwd : BOOLEAN, enb : BOOLEAN, sensor : BOOLEAN,
   follow : BOOLEAN, is_pwm : BOOLEAN, scale : {1, 2},
   max_move_dis : MoveLimits]

WeightCap == empty_spool_weight + MaxFilament

\* ------------------------------------------------------------ pure helpers
RECURSIVE SqrtSearch(_, _, _)
SqrtSearch(n, lo, hi) ==
  IF lo >= hi THEN lo
  ELSE LET mid == (lo + hi + 1) \div 2
       IN  IF mid * mid <= n THEN SqrtSearch(n, mid, hi)
           ELSE SqrtSearch(n, lo, mid - 1)

\* math.sqrt / ** 0.5, rounded down
ISqrt(n) == SqrtSearch(n, 0, Min(n, 46340))

CeilDiv(a, b) == (a + b - 1) \div b

\* A float operation rounds its exact result to the nearest value it can
\* hold, ties to even: the quotient a / b for b > 0, and the square root.
RoundDiv(a, b) ==
  LET n == IF a < 0 THEN -a ELSE a
      q == n \div b
      r == n % b
      m == IF 2 * r > b \/ (2 * r = b /\ q % 2 = 1) THEN q + 1 ELSE q
  IN  IF a < 0 THEN -m ELSE m

RoundSqrt(n) ==
  LET root == ISqrt(n)
  IN  IF n - root * root > root THEN root + 1 ELSE root

\* calc_move_time: the speed that the move reaches, and what it would be if
\* the move always reached the speed asked for
FullSpeed(max_cruise_v2, speed) == speed

CruiseSpeed(max_cruise_v2, speed) ==
  IF max_cruise_v2 < speed * speed THEN RoundSqrt(max_cruise_v2) ELSE speed

\* calc_move_time: distances in mm, speeds in mm/s, times in ms
calc_move_time(dist, speed, accel) ==
  LET axis_r == IF dist < 0 THEN -1 ELSE 1
      d == IF dist < 0 THEN -dist ELSE dist
  IN  IF accel = 0 \/ d = 0
      THEN [axis_r |-> axis_r, accel_t |-> 0,
            cruise_t |-> RoundDiv(d * 1000, speed), speed |-> speed]
      ELSE LET max_cruise_v2 == d * accel
               v == CruiseSpeed(max_cruise_v2, speed)
               accel_t == RoundDiv(v * 1000, accel)
               accel_decel_d == accel_t * v
               cruise_t == RoundDiv(d * 1000 - accel_decel_d, v)
           IN  [axis_r |-> axis_r, accel_t |-> accel_t, cruise_t |-> cruise_t,
                speed |-> v]

\* toolhead.dwell(accel_t + cruise_t + accel_t) and wait_moves: the ticks until
\* the segment has completed
MoveTicks(dist, speed, accel) ==
  LET m == calc_move_time(dist, speed, accel)
  IN  CeilDiv((m.accel_t + m.cruise_t + m.accel_t) * TicksPerSec, 1000)

\* calculate_effective_diameter, weight in mg, result in mm
calculate_effective_diameter(weight) ==
  LET filament_volume_mm3 == (weight * 100) \div 124
      package_corrected_volume_mm3 == (filament_volume_mm3 * 1000) \div 785
      filament_area_mm2 == package_corrected_volume_mm3 \div 60
      spool_outer_diameter_mm2 ==
        (4 * filament_area_mm2 * 1000) \div 3142 + inner_diameter * inner_diameter
  IN  ISqrt(spool_outer_diameter_mm2)

\* calculate_rpm for a lane whose remaining weight is w
calculate_rpm(w, feed_rate) ==
  IF w <= empty_spool_weight THEN 0
  ELSE Min((feed_rate * 60 * 1000) \div (3142 * calculate_effective_diameter(w)),
           max_motor_rpm)

\* calculate_pwm_value: the value is clamped between 0 and 1, and what it
\* would be without the clamp
Unclamped(pwm_value) == pwm_value

ClampDuty(pwm_value) == Max(0, Min(pwm_value, DutyOne))

\* calculate_pwm_value, result in twentieths
calculate_pwm_value(w, feed_rate, rewind) ==
  LET rpm == calculate_rpm(w, feed_rate)
      pwm_value ==
        IF ~rewind
        THEN (rpm * DutyOne * (10 + 9 * fwd_speed_multi)) \div (max_motor_rpm * 10)
        ELSE (rpm * DutyOne * (150 + 15 * rwd_speed_multi)) \div (max_motor_rpm * 10)
  IN  ClampDuty(pwm_value)

\* A Python float keeps a fixed number of significant bits: weights are
\* whole mg up to 2^MantissaBits and multiples of a growing power of two
\* beyond.  Exponent(x) is the position of the leading bit of x > 0.
RECURSIVE Exponent(_)
Exponent(x) == IF x < 2 THEN 0 ELSE 1 + Exponent(x \div 2)

\* the distance between neighbouring floats at the size of x
Ulp(x) ==
  LET e == Exponent(Abs(x))
  IN  IF e < MantissaBits THEN 1 ELSE 2 ^ (e - MantissaBits + 1)

\* the result of a float operation whose exact value is x: the nearest
\* float, the one with the even last bit when x is halfway
Float(x) ==
  LET a == Abs(x)
      u == Ulp(a)
      q == a \div u
      r == a % u
      n == IF 2 * r > u \/ (2 * r = u /\ q % 2 = 1) THEN (q + 1) * u ELSE q * u
  IN  IF x < 0 THEN -n ELSE n

\* update_remaining_weight: the test of the floor, and what it would be if
\* the floor were never applied
NeverBelowEmpty(left) == FALSE

BelowEmpty(left) == left < empty_spool_weight

\* update_remaining_weight: the weight of the filament moved, which has the
\* sign of the distance, and what it would be without the sign
UnsignedChange(distance_moved) == MgPerMm * Abs(distance_moved)

WeightChange(distance_moved) == MgPerMm * distance_moved

\* update_remaining_weight
update_remaining_weight(w, distance_moved) ==
  LET filament_weight_change == Float(WeightChange(distance_moved))
      left == Float(w - filament_weight_change)
  IN  IF BelowEmpty(left) THEN empty_spool_weight ELSE left

\* ------------------------------------------------------------- wheel sensor
\* StandaloneWheelSensor.get_rpm.  adv: the clock has advanced since the
\* previous read although the read falls in the same tick.
get_rpm(adv) ==
  LET dt == since_sample
  IN  IF dt <= 0 /\ ~adv
      THEN [rpm |-> None, pulses |-> 0, pulse_count |-> pulse_count,
            since_sample |-> since_sample]
      ELSE [rpm |-> IF dt > 0
                    THEN (pulse_count * SecPerMin * TicksPerSec)
                           \div (pulses_per_rev * dt)
                    ELSE (pulse_count * SecPerMin * TicksPerSec * SubTicks)
                           \div pulses_per_rev,
            pulses |-> pulse_count, pulse_count |-> 0, since_sample |-> 0]

\* _edge_callback: the test for a rising edge, and what it would be if every
\* report of a high level were counted
HighLevel(state) == state

RisingEdge(state) == ~prev_state /\ state

\* StandaloneWheelSensor._edge_callback
edge_callback(state) ==
  /\ cur = "none"
  /\ cfg.sensor
  /\ (~prev_state /\ state) => pulse_count < MaxPulses
  /\ pulse_count' = IF RisingEdge(state) THEN pulse_count + 1 ELSE pulse_count
  /\ owed' = IF ~prev_state /\ state THEN owed + 1 ELSE owed
  /\ prev_state' = state
  /\ UNCHANGED <<cfg, probe, cur, pc, ret, wake, since_sample, pin, wheel_follow_paused,
                 assist_activate, remaining_weight, arg, rw, eventtime, hist,
                 lane, obs>>

\* ------------------------------------------------------------ assist motor
\* A channel's duty is kept as the numerator of value / scale over
\* DutyOne * scale, so the division by scale is exact; PinOne is the raw 1.
PinOne == DutyOne * cfg.scale

\* value /= assit_motor.scale and the snap of a channel that is not PWM capable
Native(value) ==
  IF ~cfg.is_pwm /\ value \notin {0, PinOne} /\ value > 0 THEN PinOne ELSE value

\* assist(value) runs brake_n20
Brakes(value) == cfg.rwd /\ value = 0 /\ cfg.enb

\* assist(value) returns without writing a channel
AssistSilent(value) == ~cfg.rwd \/ (value > 0 /\ ~cfg.fwd)

\* the channels after assist(value), for the values that do not brake
AssistWrites(value) ==
  IF AssistSilent(value) THEN pin
  ELSE IF value = 0 THEN [pin EXCEPT !.rwd = 0]
  ELSE LET v == Native(Abs(value))
           enabled == IF cfg.enb
                      THEN [pin EXCEPT !.enb = IF v # 0 THEN PinOne ELSE 0]
                      ELSE pin
       IN  IF value < 0 THEN [enabled EXCEPT !.rwd = v]
           ELSE [enabled EXCEPT !.fwd = v]

\* brake_n20 up to its pause: reverse, enable and forward raised
BrakeHold ==
  [rwd |-> PinOne, enb |-> PinOne, fwd |-> IF cfg.fwd THEN PinOne ELSE pin.fwd]

\* brake_n20 after its pause: reverse, enable and forward lowered
BrakeLow ==
  [rwd |-> 0, enb |-> 0, fwd |-> IF cfg.fwd THEN 0 ELSE pin.fwd]

\* assist(value) called by greenlet p, which goes on at next: the channels are
\* written at once, or the brake sequence starts and p pauses in it
assist(p, value, next) ==
  IF Brakes(value)
  THEN /\ pin' = BrakeHold
       /\ pc' = [pc EXCEPT ![p] = "brake_dwell"]
       /\ ret' = [ret EXCEPT ![p] = next]
       /\ wake' = [wake EXCEPT ![p] = BrakeDelay]
       /\ cur' = "none"
       /\ hist' = [hist EXCEPT !.zero_done = FALSE, !.last_by = p, !.last_value = value,
                                !.follow_last = IF p = "follow" THEN value ELSE @]
  ELSE /\ pin' = AssistWrites(value)
       /\ pc' = [pc EXCEPT ![p] = next]
       /\ cur' = p
       /\ hist' = [hist EXCEPT
                     !.zero_done = IF value = 0 THEN TRUE
                                   ELSE IF AssistSilent(value) THEN @ ELSE FALSE,
                     !.last_by = p, !.last_value = value,
                     !.follow_last = IF p = "follow" THEN value ELSE @]
       /\ UNCHANGED <<ret, wake>>

\* brake_n20 resumed after n20_break_delay_time
brake_n20(p) ==
  /\ cur = "none"
  /\ pc[p] = "brake_dwell"
  /\ wake[p] <= 0
  /\ pin' = BrakeLow
  /\ pc' = [pc EXCEPT ![p] = ret[p]]
  /\ cur' = p
  /\ hist' = [hist EXCEPT !.zero_done = TRUE]
  /\ UNCHANGED <<cfg, probe, ret, wake, pulse_count, owed, prev_state, since_sample,
                 wheel_follow_paused, assist_activate, remaining_weight, arg, rw,
                 eventtime, lane, obs>>

\* --------------------------------------------------------- follow controller
\* variant: a handler that does not look at the flag
FollowNeverYields == FALSE

\* if self._wheel_follow_paused: return eventtime + 0.1
FollowYields == wheel_follow_paused

\* pwm = max(0.0, min(self.wheel_follow_pwm, 1.0))
FollowDuty == Max(0, Min(wheel_follow_pwm, DutyOne))

\* if not self.assist_activate, and what it would be if the handler did not
\* remember that it has started the motor
AssistAssumedOff == TRUE

AssistOff == ~assist_activate

\* _wheel_follow_handler, fired by its timer (registered by _handle_ready when
\* wheel_follow_assist is set and a wheel sensor is bound)
wheel_follow_handler(adv) ==
  /\ cur = "none"
  /\ cfg.follow /\ cfg.sensor
  /\ pc["follow"] = "wait"
  /\ wake["follow"] <= 0
  /\ eventtime' = 0
  /\ IF FollowYields
     THEN /\ pc' = [pc EXCEPT !["follow"] = "fh_ret"]
          /\ cur' = "follow"
          /\ UNCHANGED <<pulse_count, owed, since_sample, pin, ret, wake, assist_activate, hist>>
     ELSE LET s == get_rpm(adv)
          IN  /\ pulse_count' = s.pulse_count
              /\ owed' = owed - s.pulses
              /\ since_sample' = s.since_sample
              /\ IF s.rpm # None /\ s.rpm >= wheel_follow_min_rpm
                 THEN IF AssistOff
                      THEN /\ assist("follow", FollowDuty, "fh_on")
                           /\ UNCHANGED assist_activate
                      ELSE /\ pc' = [pc EXCEPT !["follow"] = "fh_ret"]
                           /\ cur' = "follow"
                           /\ UNCHANGED <<pin, ret, wake, assist_activate, hist>>
                 ELSE IF assist_activate
                      THEN /\ assist("follow", 0, "fh_off")
                           /\ UNCHANGED assist_activate
                      ELSE /\ pc' = [pc EXCEPT !["follow"] = "fh_ret"]
                           /\ cur' = "follow"
                           /\ UNCHANGED <<pin, ret, wake, assist_activate, hist>>
  /\ UNCHANGED <<cfg, probe, prev_state, wheel_follow_paused, remaining_weight, arg, rw,
                 lane, obs>>

\* _wheel_follow_handler after assist(pwm) / assist(0): it records the state
\* of the assist and returns eventtime + 0.1, which re-arms the timer
wheel_follow_return ==
  /\ cur = "follow"
  /\ pc["follow"] \in {"fh_on", "fh_off", "fh_ret"}
  /\ assist_activate' = CASE pc["follow"] = "fh_on" -> TRUE
                          [] pc["follow"] = "fh_off" -> FALSE
                          [] OTHER -> assist_activate
  /\ pc' = [pc EXCEPT !["follow"] = "wait"]
  /\ wake' = [wake EXCEPT !["follow"] = Max(0, 1 - eventtime)]
  /\ eventtime' = 0
  /\ cur' = "none"
  /\ UNCHANGED <<cfg, probe, ret, pulse_count, owed, prev_state, since_sample, pin,
                 wheel_follow_paused, remaining_weight, arg, rw, hist,
                 lane, obs>>

\* ------------------------------------------------------------------- moves
\* _move runs the tension rewind for this segment
RewindPath(p) == arg[p].assist_active /\ arg[p].move_value < 0 /\ cfg.sensor

\* move(distance, speed, accel, assist_active) called by greenlet p, which
\* goes on at after when move returns
call_move(p, distance, speed, accel, assist_active, after) ==
  /\ arg' = [arg EXCEPT ![p] =
               [speed |-> speed, accel |-> accel, assist_active |-> assist_active,
                direction |-> IF distance > 0 THEN 1 ELSE -1,
                move_total |-> Abs(distance), move_value |-> 0, fault |-> FALSE,
                after |-> after, distance |-> distance, issued |-> <<>>]]
  /\ pc' = [pc EXCEPT ![p] = "move_loop"]
  /\ cur' = p

\* move(distance, speed, accel, assist_active) entered by greenlet p on
\* behalf of a caller that is not modelled further
move(p, distance, speed, accel, assist_active) ==
  /\ cur = "none"
  /\ pc[p] = "idle"
  /\ assist_active => remaining_weight - MgPerMm * distance <= WeightCap
  /\ call_move(p, distance, speed, accel, assist_active, "idle")
  /\ UNCHANGED <<cfg, probe, ret, wake, pulse_count, owed, prev_state, since_sample, pin,
                 wheel_follow_paused, assist_activate, remaining_weight, rw,
                 eventtime, hist, lane, obs>>

\* move: the length of the next segment, and what it would be if the move
\* were not cut
SegmentWhole(move_total, limit) == move_total

SegmentLength(move_total, limit) ==
  IF move_total > limit THEN limit ELSE move_total

\* move: the while loop that cuts the move into segments, and the start of
\* _move for the next segment (update_remaining_weight); issued lists the
\* segments passed to _move so far
move_loop(p) ==
  /\ cur = p
  /\ pc[p] = "move_loop"
  /\ IF arg[p].move_total > 0
     THEN LET seg == SegmentLength(arg[p].move_total, cfg.max_move_dis)
              move_value == seg * arg[p].direction
          IN  /\ arg' = [arg EXCEPT ![p].move_total = @ - seg,
                                    ![p].move_value = move_value,
                                    ![p].issued = Append(@, move_value)]
              /\ remaining_weight' =
                   IF arg[p].assist_active
                   THEN update_remaining_weight(remaining_weight, move_value)
                   ELSE remaining_weight
              /\ pc' = [pc EXCEPT ![p] = "am_enter"]
     ELSE /\ pc' = [pc EXCEPT ![p] = "move_ret"]
          /\ UNCHANGED <<arg, remaining_weight>>
  /\ UNCHANGED <<cfg, probe, cur, ret, wake, pulse_count, owed, prev_state, since_sample, pin,
                 wheel_follow_paused, assist_activate, rw, eventtime, hist,
                 lane, obs>>

\* assist_move up to its yield
assist_move_enter(p) ==
  /\ cur = p
  /\ pc[p] = "am_enter"
  /\ IF arg[p].assist_active
     THEN /\ wheel_follow_paused' = TRUE
          /\ IF RewindPath(p)
             THEN /\ pc' = [pc EXCEPT ![p] = "rw_start"]
                  /\ UNCHANGED <<pin, ret, wake, cur, hist>>
             ELSE LET pwm == calculate_pwm_value(remaining_weight, arg[p].speed,
                                                 arg[p].move_value < 0)
                      value == IF arg[p].move_value < 0 THEN -pwm ELSE pwm
                  IN  assist(p, IF value > DutyOne THEN DutyOne ELSE value, "body")
     ELSE /\ pc' = [pc EXCEPT ![p] = "body"]
          /\ UNCHANGED <<wheel_follow_paused, pin, ret, wake, cur, hist>>
  /\ UNCHANGED <<cfg, probe, pulse_count, owed, prev_state, since_sample, assist_activate,
                 remaining_weight, arg, rw, eventtime, lane, obs>>

\* the body of _move's with block: the segment is queued and the greenlet
\* waits (toolhead.dwell, wait_moves) until it has been executed
move_body(p) ==
  /\ cur = p
  /\ pc[p] = "body"
  /\ pc' = [pc EXCEPT ![p] = "body_wait"]
  /\ wake' = [wake EXCEPT ![p] =
                MoveTicks(arg[p].move_value, arg[p].speed, arg[p].accel)]
  /\ cur' = "none"
  /\ UNCHANGED <<cfg, probe, ret, pulse_count, owed, prev_state, since_sample, pin,
                 wheel_follow_paused, assist_activate, remaining_weight, arg, rw,
                 eventtime, hist, lane, obs>>

\* the body resumed: it completes, or the motion backend raises (fault).  In
\* the rewind path the yield of assist_move is outside the try block.
move_body_done(p, fault) ==
  /\ cur = "none"
  /\ pc[p] = "body_wait"
  /\ wake[p] <= 0
  /\ cur' = p
  /\ arg' = [arg EXCEPT ![p].fault = fault]
  /\ pc' = [pc EXCEPT ![p] = IF RewindPath(p)
                             THEN IF fault THEN "raised" ELSE "am_exit_rw"
                             ELSE "am_finally"]
  /\ UNCHANGED <<cfg, probe, ret, wake, pulse_count, owed, prev_state, since_sample, pin,
                 wheel_follow_paused, assist_activate, remaining_weight, rw,
                 eventtime, hist, lane, obs>>

\* assist_move after the yield of the rewind path
assist_move_exit_rewind(p) ==
  /\ cur = p
  /\ pc[p] = "am_exit_rw"
  /\ wheel_follow_paused' = FALSE
  /\ pc' = [pc EXCEPT ![p] = "move_loop"]
  /\ UNCHANGED <<cfg, probe, cur, ret, wake, pulse_count, owed, prev_state, since_sample, pin,
                 assist_activate, remaining_weight, arg, rw, eventtime, hist,
                 lane, obs>>

\* assist_move's finally block up to the clearing of the flag
assist_move_finally(p) ==
  /\ cur = p
  /\ pc[p] = "am_finally"
  /\ IF arg[p].assist_active /\ ~(arg[p].move_value < 0 /\ cfg.sensor)
     THEN assist(p, 0, "am_clear")
     ELSE /\ pc' = [pc EXCEPT ![p] = "am_clear"]
          /\ UNCHANGED <<pin, ret, wake, cur, hist>>
  /\ UNCHANGED <<cfg, probe, pulse_count, owed, prev_state, since_sample, wheel_follow_paused,
                 assist_activate, remaining_weight, arg, rw, eventtime,
                 lane, obs>>

\* assist_move's finally block: the flag is cleared; a fault of the body goes
\* on to the caller, otherwise move takes the next segment
assist_move_clear(p) ==
  /\ cur = p
  /\ pc[p] = "am_clear"
  /\ wheel_follow_paused' = FALSE
  /\ pc' = [pc EXCEPT ![p] = IF arg[p].fault THEN "raised" ELSE "move_loop"]
  /\ UNCHANGED <<cfg, probe, cur, ret, wake, pulse_count, owed, prev_state, since_sample, pin,
                 assist_activate, remaining_weight, arg, rw, eventtime, hist,
                 lane, obs>>

\* move returns to its caller, or its exception reaches it.  prep_callback
\* goes on with reactor.pause(monotonic() + 0.1) after a retry move and with
\* loaded_to_hub = True after the hub move; it catches no exception.
move_return(p) ==
  /\ cur = p
  /\ pc[p] \in {"move_ret", "raised"}
  /\ IF pc[p] = "raised" \/ arg[p].after = "idle"
     THEN /\ pc' = [pc EXCEPT ![p] = "idle"]
          /\ cur' = "none"
          /\ UNCHANGED wake
     ELSE IF arg[p].after = "prep_pause"
     THEN /\ pc' = [pc EXCEPT ![p] = "prep_pause"]
          /\ wake' = [wake EXCEPT ![p] = 1]
          /\ cur' = "none"
     ELSE /\ pc' = [pc EXCEPT ![p] = arg[p].after]
          /\ UNCHANGED <<wake, cur>>
  /\ UNCHANGED <<cfg, probe, ret, pulse_count, owed, prev_state, since_sample, pin,
                 wheel_follow_paused, assist_activate, remaining_weight, arg, rw,
                 eventtime, hist, lane, obs>>

\* ---------------------------------------------------------- tension rewind
\* the locals of rewind_until_tension before it has run; elapsed is
\* reactor.monotonic() - start_time (None before start_time is taken) and run
\* the ticks since rewind_until_tension was called.  started, last_cmd
\* and hit observe the run: it has commanded the motor, the last value it
\* passed to assist, and a regulation sample below the cutoff has been read;
\* polled: it has called get_rpm and has not paused in a loop since.
NoRewind ==
  [pwm_val |-> 0, run |-> None, elapsed |-> None, baseline_rpm |-> None, wheel_rpm |-> 0,
   started |-> FALSE, last_cmd |-> 0, hit |-> FALSE, polled |-> FALSE]

\* wheel_rpm < cutoff, cutoff = baseline_rpm * tension_drop_fraction
BelowCutoff(wheel_rpm, baseline_rpm) ==
  wheel_rpm * 100 < baseline_rpm * tension_drop_percent

\* variant: a baseline loop without its timeout
BaselineForever(p) == TRUE

\* variant: a rewind that regulates without a baseline
BaselineAssumed(p) == FALSE

\* variant: a regulation loop without its break
TensionIgnored(p) == FALSE

\* while (monotonic() - start_time) < 2.0
BaselineRunning(p) == rw[p].elapsed < BaselineTimeout

\* if baseline_rpm is None
BaselineMissing(p) == rw[p].baseline_rpm = None

\* pwm_val = max(pwm_val - 0.05, -1.0), and what it would be with a step of
\* 0.1
FasterTwice(pwm_val) == Max(pwm_val - 2, -DutyOne)

Faster(pwm_val) == Max(pwm_val - 1, -DutyOne)

\* pwm_val = min(pwm_val + 0.05, 0.0)
Slower(pwm_val) == Min(pwm_val + 1, 0)

\* while (monotonic() - start_time) < tension_max_time
RegulationRunning(p) == rw[p].elapsed < TensionMaxTime

\* if wheel_rpm < cutoff: break
TensionDetected(p) == BelowCutoff(rw[p].wheel_rpm, rw[p].baseline_rpm)

\* rewind_until_tension: the guard, the rewind PWM and the start of the motor
rewind_start(p) ==
  /\ cur = p
  /\ pc[p] = "rw_start"
  /\ IF ~cfg.sensor \/ ~cfg.rwd
     THEN /\ pc' = [pc EXCEPT ![p] = "rw_ret"]
          /\ rw' = [rw EXCEPT ![p] = [NoRewind EXCEPT !.run = 0]]
          /\ UNCHANGED <<pin, ret, wake, cur, hist>>
     ELSE LET pwm == calculate_pwm_value(remaining_weight, arg[p].speed, TRUE)
              pwm_val == -(IF pwm > DutyOne THEN DutyOne ELSE pwm)
          IN  /\ rw' = [rw EXCEPT ![p] = [NoRewind EXCEPT !.pwm_val = pwm_val, !.run = 0,
                                                          !.started = TRUE,
                                                          !.last_cmd = pwm_val]]
              /\ assist(p, pwm_val, "rw_init")
  /\ UNCHANGED <<cfg, probe, pulse_count, owed, prev_state, since_sample, wheel_follow_paused,
                 assist_activate, remaining_weight, arg, eventtime, lane, obs>>

\* rewind_until_tension: the rpm variables, start_time and baseline_rpm
rewind_init(p) ==
  /\ cur = p
  /\ pc[p] = "rw_init"
  /\ rw' = [rw EXCEPT ![p].wheel_rpm = 0, ![p].elapsed = 0,
                      ![p].baseline_rpm = None]
  /\ pc' = [pc EXCEPT ![p] = "rw_base_loop"]
  /\ UNCHANGED <<cfg, probe, cur, ret, wake, pulse_count, owed, prev_state, since_sample, pin,
                 wheel_follow_paused, assist_activate, remaining_weight, arg,
                 eventtime, hist, lane, obs>>

\* rewind_until_tension: one turn of the baseline loop, up to its pause
rewind_baseline(p, adv) ==
  /\ cur = p
  /\ pc[p] = "rw_base_loop"
  /\ IF BaselineRunning(p)
     THEN LET s == get_rpm(adv)
          IN  /\ pulse_count' = s.pulse_count
              /\ owed' = owed - s.pulses
              /\ since_sample' = s.since_sample
              /\ IF s.rpm # None /\ s.rpm > tension_baseline_min_rpm
                 THEN /\ rw' = [rw EXCEPT ![p].wheel_rpm = s.rpm,
                                          ![p].baseline_rpm = s.rpm,
                                          ![p].polled = TRUE]
                      /\ pc' = [pc EXCEPT ![p] = "rw_base_end"]
                      /\ UNCHANGED <<wake, cur>>
                 ELSE /\ rw' = [rw EXCEPT ![p].wheel_rpm = s.rpm,
                                          ![p].polled = TRUE]
                      /\ pc' = [pc EXCEPT ![p] = "rw_base_pause"]
                      /\ wake' = [wake EXCEPT ![p] = 1]
                      /\ cur' = "none"
     ELSE /\ pc' = [pc EXCEPT ![p] = "rw_base_end"]
          /\ UNCHANGED <<pulse_count, owed, since_sample, rw, wake, cur>>
  /\ UNCHANGED <<cfg, probe, ret, prev_state, pin, wheel_follow_paused,
                 assist_activate, remaining_weight, arg, eventtime, hist,
                 lane, obs>>

\* rewind_until_tension: after the baseline loop
rewind_baseline_end(p) ==
  /\ cur = p
  /\ pc[p] = "rw_base_end"
  /\ IF BaselineMissing(p)
     THEN /\ rw' = [rw EXCEPT ![p].last_cmd = 0]
          /\ assist(p, 0, "rw_ret")
     ELSE /\ pc' = [pc EXCEPT ![p] = "rw_reg_loop"]
          /\ UNCHANGED <<rw, pin, ret, wake, cur, hist>>
  /\ UNCHANGED <<cfg, probe, pulse_count, owed, prev_state, since_sample, wheel_follow_paused,
                 assist_activate, remaining_weight, arg, eventtime, lane, obs>>

\* rewind_until_tension: one turn of the regulation loop, up to the test of
\* the cutoff: the sample and the adjustment of the PWM
rewind_regulate(p, adv) ==
  /\ cur = p
  /\ pc[p] = "rw_reg_loop"
  /\ IF RegulationRunning(p)
     THEN LET s == get_rpm(adv)
              target_rpm == rw[p].baseline_rpm
              low == Faster(rw[p].pwm_val)
              high == Slower(rw[p].pwm_val)
              hit == rw[p].hit \/ (s.rpm # None /\ BelowCutoff(s.rpm, target_rpm))
          IN  /\ pulse_count' = s.pulse_count
              /\ owed' = owed - s.pulses
              /\ since_sample' = s.since_sample
              /\ IF s.rpm = None
                 THEN /\ rw' = [rw EXCEPT ![p].wheel_rpm = s.rpm,
                                          ![p].polled = TRUE]
                      /\ pc' = [pc EXCEPT ![p] = "rw_reg_pause"]
                      /\ wake' = [wake EXCEPT ![p] = 1]
                      /\ cur' = "none"
                      /\ UNCHANGED <<pin, ret, hist>>
                 ELSE IF s.rpm * 10 < target_rpm * 9
                 THEN /\ rw' = [rw EXCEPT ![p].wheel_rpm = s.rpm, ![p].hit = hit,
                                          ![p].pwm_val = low, ![p].last_cmd = low,
                                          ![p].polled = TRUE]
                      /\ assist(p, low, "rw_reg_check")
                 ELSE IF s.rpm * 10 > target_rpm * 11
                 THEN /\ rw' = [rw EXCEPT ![p].wheel_rpm = s.rpm, ![p].hit = hit,
                                          ![p].pwm_val = high, ![p].last_cmd = high,
                                          ![p].polled = TRUE]
                      /\ assist(p, high, "rw_reg_check")
                 ELSE /\ rw' = [rw EXCEPT ![p].wheel_rpm = s.rpm, ![p].hit = hit,
                                          ![p].polled = TRUE]
                      /\ pc' = [pc EXCEPT ![p] = "rw_reg_check"]
                      /\ UNCHANGED <<pin, ret, wake, cur, hist>>
     ELSE /\ pc' = [pc EXCEPT ![p] = "rw_stop"]
          /\ UNCHANGED <<pulse_count, owed, since_sample, rw, pin, ret, wake, cur, hist>>
  /\ UNCHANGED <<cfg, probe, prev_state, wheel_follow_paused, assist_activate,
                 remaining_weight, arg, eventtime, lane, obs>>

\* rewind_until_tension: the test of the cutoff and the pause of the
\* regulation loop
rewind_check(p) ==
  /\ cur = p
  /\ pc[p] = "rw_reg_check"
  /\ IF TensionDetected(p)
     THEN /\ pc' = [pc EXCEPT ![p] = "rw_stop"]
          /\ UNCHANGED <<wake, cur>>
     ELSE /\ pc' = [pc EXCEPT ![p] = "rw_reg_pause"]
          /\ wake' = [wake EXCEPT ![p] = 1]
          /\ cur' = "none"
  /\ UNCHANGED <<cfg, probe, ret, pulse_count, owed, prev_state, since_sample, pin,
                 wheel_follow_paused, assist_activate, remaining_weight, arg, rw,
                 eventtime, hist, lane, obs>>

\* reactor.pause of the baseline or regulation loop has elapsed
rewind_resume(p) ==
  /\ cur = "none"
  /\ pc[p] \in {"rw_base_pause", "rw_reg_pause"}
  /\ wake[p] <= 0
  /\ pc' = [pc EXCEPT ![p] = IF pc[p] = "rw_base_pause" THEN "rw_base_loop"
                             ELSE "rw_reg_loop"]
  /\ rw' = [rw EXCEPT ![p].polled = FALSE]
  /\ cur' = p
  /\ UNCHANGED <<cfg, probe, ret, wake, pulse_count, owed, prev_state, since_sample, pin,
                 wheel_follow_paused, assist_activate, remaining_weight, arg,
                 eventtime, hist, lane, obs>>

\* rewind_until_tension ends without a word on the remaining weight, which
\* _move has updated before; and what it would be if the rewind added the
\* rewound filament itself
WeightRewound(p) == update_remaining_weight(remaining_weight, arg[p].move_value)

WeightAfterRewind(p) == remaining_weight

\* self.assist(0) at the end of rewind_until_tension, and what it would pass
\* if it left the motor at its last PWM
RewindKeeps(p) == rw[p].pwm_val

RewindStop(p) == 0

\* rewind_until_tension: the report of the RPM (the format of a wheel_rpm
\* that is None raises TypeError) and the stop of the respooler
rewind_stop(p) ==
  /\ cur = p
  /\ pc[p] = "rw_stop"
  /\ IF rw[p].wheel_rpm = None
     THEN /\ pc' = [pc EXCEPT ![p] = "rw_raise"]
          /\ UNCHANGED <<rw, pin, ret, wake, cur, hist>>
     ELSE /\ rw' = [rw EXCEPT ![p].last_cmd = RewindStop(p)]
          /\ assist(p, RewindStop(p), "rw_ret")
  /\ remaining_weight' = WeightAfterRewind(p)
  /\ UNCHANGED <<cfg, probe, pulse_count, owed, prev_state, since_sample, wheel_follow_paused,
                 assist_activate, arg, eventtime, lane, obs>>

\* rewind_until_tension returns to assist_move, which yields to the body of
\* _move; or its exception leaves assist_move, _move and move
rewind_return(p) ==
  /\ cur = p
  /\ pc[p] \in {"rw_ret", "rw_raise"}
  /\ pc' = [pc EXCEPT ![p] = IF pc[p] = "rw_ret" THEN "body" ELSE "raised"]
  /\ rw' = [rw EXCEPT ![p] = NoRewind]
  /\ UNCHANGED <<cfg, probe, cur, ret, wake, pulse_count, owed, prev_state, since_sample, pin,
                 wheel_follow_paused, assist_activate, remaining_weight, arg,
                 eventtime, hist, lane, obs>>

\* ------------------------------------------------------ lane state machine
\* what prep_callback has asked of its collaborators, before it has asked
NoObs ==
  [fault |-> "none", paused |-> FALSE, resumed |-> FALSE, restored |-> FALSE,
   changed |-> FALSE, unloaded |-> FALSE, tool_load |-> FALSE,
   hub_move |-> FALSE, hub_assist |-> FALSE, saved |-> FALSE, returned |-> FALSE,
   order |-> <<>>, branch |-> "none"]

\* dist_hub_move_speed and dist_hub_move_accel (handle_unit_connect)
dist_hub_move_speed ==
  IF lane.dist_hub >= HubThreshold THEN long_moves_speed ELSE short_moves_speed

dist_hub_move_accel ==
  IF lane.dist_hub >= HubThreshold THEN long_moves_accel ELSE short_moves_accel

\* load_callback
load_callback(state) ==
  /\ cur = "none"
  /\ lane.load
  /\ lane' = [lane EXCEPT !.load_state = state]
  /\ UNCHANGED <<cfg, probe, cur, pc, ret, wake, pulse_count, owed, prev_state, since_sample,
                 pin, wheel_follow_paused, assist_activate, remaining_weight, arg,
                 rw, eventtime, hist, obs>>

\* set_afc_prep_done
set_afc_prep_done ==
  /\ cur = "none"
  /\ ~lane.afc_prep_done
  /\ lane' = [lane EXCEPT !.afc_prep_done = TRUE]
  /\ UNCHANGED <<cfg, probe, cur, pc, ret, wake, pulse_count, owed, prev_state, since_sample,
                 pin, wheel_follow_paused, assist_activate, remaining_weight, arg,
                 rw, eventtime, hist, obs>>

\* prep_callback: the test of the stuck-sensor branch, and what it would be
\* if the branch were never taken
StuckNever(l, printing) == FALSE

StuckSensor(l, printing) == l.prep_state /\ l.load_state /\ ~printing

\* prep_callback: the test that PREP has been called, and what it would be if
\* the handler took it for granted
PrepAssumedDone(l) == TRUE

PrepDone(l) == l.afc_prep_done

\* prep_callback: the test of the time since the previous edge of the prep
\* sensor, and what it would be if any interval were long enough
NeverTooSoon(delta_time) == FALSE

TooSoon(delta_time) == delta_time < DebounceTicks

\* prep_callback: the branch that the body of its one-turn for loop takes for
\* the lane l (prep_state already recorded); ready: the printer's state
\* message is 'Printer is ready'; printing: is_printing(); busy:
\* is_printing(check_movement=True); current: this lane is AFC.current
PrepBranch(l, delta_time, ready, printing, busy, current) ==
  IF ~(ready /\ PrepDone(l) /\ l.status # "Tool Unloading") THEN "gated"
  ELSE IF l.prep_state /\ ~l.load_state
       THEN IF TooSoon(delta_time) THEN "debounce"
            ELSE IF busy THEN "busy"
            ELSE "load"
  ELSE IF ~l.prep_state /\ current /\ printing /\ l.load_state
            /\ l.status # "ejecting"
       THEN "runout"
  ELSE IF StuckSensor(l, printing) THEN "stuck"
  ELSE "clear"

\* prep_callback: the lane after the runout branch; fail1: CHANGE_TOOL (or
\* TOOL_UNLOAD) ends with AFC.error_state set; fail2: so does LANE_UNLOAD
RunoutLane(l, fail1, fail2) ==
  LET e1 == l.error_state \/ fail1
  IN  IF l.runout
      THEN [l EXCEPT !.status = "None", !.error_state = e1 \/ (~e1 /\ fail2)]
      ELSE IF l.unload_on_runout
      THEN [l EXCEPT !.status = "None", !.error_state = e1 \/ (~e1 /\ fail2)]
      ELSE [l EXCEPT !.status = "None"]

\* prep_callback: the calls of the runout branch of a lane with a runout
\* lane, in the order it makes them (error: AFC.error_state is set after
\* SET_MAP), and the order with the resume sent ahead of the unload
ResumeEarly(error) ==
  <<"send_pause_command", "save_pos", "CHANGE_TOOL", "SET_MAP">>
  \o (IF error THEN <<>>
      ELSE <<"send_resume_command", "LANE_UNLOAD", "restore_pos">>)

SwapCalls(error) ==
  <<"send_pause_command", "save_pos", "CHANGE_TOOL", "SET_MAP">>
  \o (IF error THEN <<>>
      ELSE <<"LANE_UNLOAD", "restore_pos", "send_resume_command">>)

\* prep_callback: the calls of the runout branch of a lane without runout lane
UnloadCalls(error) ==
  <<"send_pause_command", "save_pos", "TOOL_UNLOAD">>
  \o (IF error THEN <<>> ELSE <<"LANE_UNLOAD">>)
  \o <<"AFC_error">>

\* prep_callback: what the runout branch asks of its collaborators
RunoutObs(l, fail1, fail2) ==
  LET e1 == l.error_state \/ fail1
  IN  IF l.runout
      THEN [NoObs EXCEPT !.paused = TRUE, !.changed = TRUE, !.unloaded = ~e1,
                         !.restored = ~e1, !.resumed = ~e1,
                         !.order = SwapCalls(e1)]
      ELSE IF l.unload_on_runout
      THEN [NoObs EXCEPT !.paused = TRUE, !.unloaded = ~e1, !.fault = "runout",
                         !.order = UnloadCalls(e1)]
      ELSE [NoObs EXCEPT !.paused = TRUE, !.fault = "runout",
                         !.order = <<"AFC_error">>]

\* prep_callback: the test of the in-flight guard, and what it would be if
\* the guard were never found set
PrepNeverInFlight(l) == FALSE

PrepInFlight(l) == l.prep_active

\* prep_callback, from the edge of the prep sensor up to its return or, in the
\* load branch, up to the load-retry loop
prep_callback(state, ready, printing, busy, homed, current, fail1, fail2) ==
  LET delta_time == lane.since_prep
      l == [lane EXCEPT !.prep_state = state, !.since_prep = 0]
      branch == PrepBranch(l, delta_time, ready, printing, busy, current)
      done(r) == [r EXCEPT !.prep_active = FALSE]
      saved(o) == [o EXCEPT !.saved = TRUE, !.returned = TRUE, !.branch = branch]
  IN  /\ cur = "none"
      /\ lane.prep_active \/ pc["cb"] = "idle"
      /\ printing => busy
      /\ IF PrepInFlight(l)
         THEN /\ lane' = l
              /\ UNCHANGED <<obs, pc, cur>>
         ELSE IF l.direct /\ l.require_home /\ ~homed
         THEN /\ lane' = l
              /\ obs' = [NoObs EXCEPT !.fault = "not_homed", !.returned = TRUE]
              /\ UNCHANGED <<pc, cur>>
         ELSE IF branch = "load"
         THEN /\ lane' = [l EXCEPT !.prep_active = TRUE, !.x = 0]
              /\ obs' = [NoObs EXCEPT !.branch = branch]
              /\ pc' = [pc EXCEPT !["cb"] = "prep_loop"]
              /\ cur' = "cb"
         ELSE /\ lane' =
                   CASE branch = "debounce" -> done([l EXCEPT !.x = 0])
                     [] branch = "busy" -> done([l EXCEPT !.x = 0])
                     [] branch = "runout" -> done(RunoutLane(l, fail1, fail2))
                     [] branch = "clear" ->
                          done([l EXCEPT !.status = "None", !.loaded_to_hub = FALSE])
                     [] OTHER -> done(l)
              /\ obs' =
                   CASE branch = "busy" -> saved([NoObs EXCEPT !.fault = "busy"])
                     [] branch = "runout" -> saved(RunoutObs(l, fail1, fail2))
                     [] branch = "stuck" -> saved([NoObs EXCEPT !.fault = "stuck"])
                     [] OTHER -> saved(NoObs)
              /\ UNCHANGED <<pc, cur>>
      /\ UNCHANGED <<cfg, probe, ret, wake, pulse_count, owed, prev_state, since_sample, pin,
                     wheel_follow_paused, assist_activate, remaining_weight, arg,
                     rw, eventtime, hist>>

\* prep_callback: the test of the load-retry loop and, while it holds, x += 1,
\* do_enable(True) and the retry move
prep_retry ==
  /\ cur = "cb"
  /\ pc["cb"] = "prep_loop"
  /\ IF ~lane.load_state /\ lane.prep_state /\ lane.load
     THEN /\ lane' = [lane EXCEPT !.x = @ + 1, !.enabled = TRUE]
          /\ call_move("cb", RetryDistance, RetrySpeed, RetryAccel, FALSE,
                       "prep_pause")
     ELSE /\ pc' = [pc EXCEPT !["cb"] = "prep_after"]
          /\ UNCHANGED <<lane, arg, cur>>
  /\ UNCHANGED <<cfg, probe, ret, wake, pulse_count, owed, prev_state, since_sample, pin,
                 wheel_follow_paused, assist_activate, remaining_weight, rw,
                 eventtime, hist, obs>>

\* prep_callback: after the pause of the load-retry loop, the test of x
prep_retry_check ==
  /\ cur = "none"
  /\ pc["cb"] = "prep_pause"
  /\ wake["cb"] <= 0
  /\ cur' = "cb"
  /\ IF lane.x > RetryLimit
     THEN /\ obs' = [obs EXCEPT !.fault = "failed_to_load"]
          /\ lane' = [lane EXCEPT !.status = ""]
          /\ pc' = [pc EXCEPT !["cb"] = "prep_after"]
     ELSE /\ pc' = [pc EXCEPT !["cb"] = "prep_loop"]
          /\ UNCHANGED <<lane, obs>>
  /\ UNCHANGED <<cfg, probe, ret, wake, pulse_count, owed, prev_state, since_sample, pin,
                 wheel_follow_paused, assist_activate, remaining_weight, arg, rw,
                 eventtime, hist>>

\* prep_callback: the test that marks the lane 'Loaded', and what it would
\* be if the lane were never marked
LoadedNever(l) == FALSE

LoadedNow(l) == l.load_state /\ l.prep_state

\* prep_callback from do_enable(False) to its return
PrepFinish(l, o) ==
  /\ lane' = [l EXCEPT !.enabled = FALSE,
                       !.status = IF LoadedNow(l) THEN "Loaded" ELSE @,
                       !.prep_active = FALSE]
  /\ obs' = [o EXCEPT !.saved = TRUE, !.returned = TRUE]
  /\ pc' = [pc EXCEPT !["cb"] = "idle"]
  /\ cur' = "none"

\* prep_callback after the load-retry loop: the handoff to TOOL_LOAD of a
\* direct lane, or the move to the hub (x, a local, is not read again)
prep_after ==
  /\ cur = "cb"
  /\ pc["cb"] = "prep_after"
  /\ LET l == [lane EXCEPT !.status = "", !.x = 0]
     IN  IF l.direct /\ l.prep_state
         THEN /\ lane' = [l EXCEPT !.prep_active = FALSE]
              /\ obs' = [obs EXCEPT !.tool_load = TRUE, !.saved = TRUE,
                                    !.returned = TRUE]
              /\ pc' = [pc EXCEPT !["cb"] = "idle"]
              /\ cur' = "none"
              /\ UNCHANGED arg
         ELSE IF l.load_to_hub /\ ~l.loaded_to_hub /\ l.load_state /\ l.prep_state
         THEN /\ lane' = l
              /\ obs' = [obs EXCEPT !.hub_move = TRUE,
                                    !.hub_assist = l.dist_hub > HubThreshold]
              /\ call_move("cb", l.dist_hub, dist_hub_move_speed,
                           dist_hub_move_accel, l.dist_hub > HubThreshold,
                           "prep_hub_done")
         ELSE /\ PrepFinish(l, obs)
              /\ UNCHANGED arg
  /\ UNCHANGED <<cfg, probe, ret, wake, pulse_count, owed, prev_state, since_sample, pin,
                 wheel_follow_paused, assist_activate, remaining_weight, rw,
                 eventtime, hist>>

\* prep_callback after the move to the hub has returned
prep_hub_done ==
  /\ cur = "cb"
  /\ pc["cb"] = "prep_hub_done"
  /\ PrepFinish([lane EXCEPT !.loaded_to_hub = TRUE], obs)
  /\ UNCHANGED <<cfg, probe, ret, wake, pulse_count, owed, prev_state, since_sample, pin,
                 wheel_follow_paused, assist_activate, remaining_weight, arg, rw,
                 eventtime, hist>>

\* -------------------------------------------------------------------- time
PauseLabels ==
  {"brake_dwell", "body_wait", "rw_base_pause", "rw_reg_pause", "prep_pause"}

\* greenlet p waits for its waketime (the follow timer once it is registered)
Waiting(p) ==
  IF p = "follow" THEN (pc[p] = "wait" /\ cfg.follow /\ cfg.sensor) \/ pc[p] = "brake_dwell"
  ELSE pc[p] \in PauseLabels

\* the clock advances by one tick while the reactor is idle and no greenlet
\* or timer is due
Tick ==
  /\ cur = "none"
  /\ \A p \in Procs : Waiting(p) => wake[p] > 0
  /\ wake' = [p \in Procs |-> IF Waiting(p) THEN wake[p] - 1 ELSE wake[p]]
  /\ since_sample' = Min(since_sample + 1, MaxDt)
  /\ rw' = [p \in Movers |->
              [rw[p] EXCEPT !.run = IF @ = None THEN @ ELSE @ + 1,
                            !.elapsed = IF @ = None THEN @ ELSE @ + 1]]
  /\ eventtime' = IF pc["follow"] = "wait" THEN eventtime ELSE eventtime + 1
  /\ lane' = [lane EXCEPT !.since_prep = Min(@ + 1, DebounceTicks)]
  /\ UNCHANGED <<cfg, probe, cur, pc, ret, pulse_count, owed, prev_state, pin,
                 wheel_follow_paused, assist_activate, remaining_weight, arg, hist,
                 obs>>

\* --------------------------------------------------------- specifications
\* no call has been made yet to the function that is exercised on its own
NoCall == [weight |-> 0, feed_rate |-> 0, rewind |-> FALSE, value |-> 0]

NoTime == [dist |-> 0, speed |-> 0, accel |-> 0, axis_r |-> 0, accel_t |-> 0,
           cruise_t |-> 0, cruise_v |-> 0]

NoProbe == [calls |-> 0, start |-> 0, distance |-> 0, mid |-> 0, back |-> FALSE,
            call |-> NoCall, last |-> NoCall, time |-> NoTime]

NoMove ==
  [speed |-> 0, accel |-> 0, assist_active |-> FALSE, direction |-> 1,
   move_total |-> 0, move_value |-> 0, fault |-> FALSE, after |-> "idle",
   distance |-> 0, issued |-> <<>>]

\* a lane's sensors and status after __init__: direct (hub == 'direct'),
\* require_home, load_to_hub, dist_hub, load (a load pin is configured),
\* runout (runout_lane != 'NONE') and unload_on_runout never change
NoLane ==
  [direct |-> FALSE, require_home |-> FALSE, load_to_hub |-> TRUE,
   dist_hub |-> dist_hub_default, load |-> TRUE, runout |-> FALSE, unload_on_runout |-> FALSE,
   prep_state |-> FALSE, load_state |-> FALSE, prep_active |-> FALSE,
   since_prep |-> DebounceTicks, afc_prep_done |-> FALSE, status |-> "None",
   loaded_to_hub |-> FALSE, tool_loaded |-> FALSE, error_state |-> FALSE,
   enabled |-> FALSE, x |-> 0]

\* the lane after __init__ and klippy:ready, with configuration c and
\* remaining weight w
InitLane(c, w) ==
  /\ cfg = c
  /\ cur = "none"
  /\ pc = [p \in Procs |-> IF p = "follow" THEN "wait" ELSE "idle"]
  /\ ret = [p \in Procs |-> "idle"]
  /\ wake = [p \in Procs |-> 0]
  /\ pulse_count = 0
  /\ owed = 0
  /\ prev_state = FALSE
  /\ since_sample = 0
  /\ pin = [rwd |-> 0, fwd |-> 0, enb |-> 0]
  /\ wheel_follow_paused = FALSE
  /\ assist_activate = FALSE
  /\ remaining_weight = w
  /\ arg = [p \in Movers |-> NoMove]
  /\ rw = [p \in Movers |-> NoRewind]
  /\ eventtime = 0
  /\ hist = [zero_done |-> FALSE, last_by |-> "none", last_value |-> 0,
             follow_last |-> None]
  /\ obs = NoObs
  /\ probe = NoProbe

\* the moves that callers request: distance in mm, speed in mm/s, accel in mm/s^2
Distances == {-15, -10, 10}
Speeds == {50}
Accels == {400}

\* the steps of a greenlet that is inside move()
Moving(p) ==
  \/ move_loop(p)
  \/ assist_move_enter(p)
  \/ move_body(p)
  \/ \E fault \in BOOLEAN : move_body_done(p, fault)
  \/ assist_move_finally(p)
  \/ assist_move_clear(p)
  \/ move_return(p)

\* the steps of a greenlet that is inside the tension rewind of move()
Rewinding(p) ==
  \/ assist_move_exit_rewind(p)
  \/ rewind_start(p)
  \/ rewind_init(p)
  \/ \E adv \in BOOLEAN : rewind_baseline(p, adv)
  \/ rewind_baseline_end(p)
  \/ \E adv \in BOOLEAN : rewind_regulate(p, adv)
  \/ rewind_check(p)
  \/ rewind_resume(p)
  \/ rewind_stop(p)
  \/ rewind_return(p)

\* a g-code command moves the lane: any distance, with or without assist
CommandMove ==
  \E d \in Distances, v \in Speeds, a \in Accels, aa \in BOOLEAN :
    move("cmd", d, v, a, aa)

\* prep_callback moves the lane towards the load sensor: self.move(10,500,400)
RetryMove == move("cb", 10, 500, 400, FALSE)

Follow ==
  \/ \E adv \in BOOLEAN : wheel_follow_handler(adv)
  \/ wheel_follow_return
  \/ brake_n20("follow")

Sensor == \E state \in BOOLEAN : edge_callback(state)

\* One lane with a wheel sensor and its rewind channel bound, the forward and
\* enable channels bound or not, on which g-code commands request moves
\* while the follow controller runs.
Init ==
  \E c \in Configs, w \in {empty_spool_weight, WeightCap} :
    /\ c.rwd /\ c.sensor /\ c.follow /\ c.is_pwm /\ c.scale = 1
    /\ c.max_move_dis = max_move_dis
    /\ InitLane(c, w)
    /\ lane = NoLane

Next ==
  \/ CommandMove
  \/ Moving("cmd")
  \/ Rewinding("cmd")
  \/ brake_n20("cmd")
  \/ Follow
  \/ Sensor
  \/ Tick

Spec == Init /\ [][Next]_vars

\* the speeds of the moves whose rewind starts at about a third of the full
\* duty, one step from it and at it, and the weights from which a rewind
\* finds the spool empty or not
RewindSpeeds == {50, 135, 150}

RewindWeights == {empty_spool_weight - MaxFilament, WeightCap - 30}

RewindMove ==
  \E d \in Distances, v \in RewindSpeeds, a \in Accels, aa \in BOOLEAN :
    move("cmd", d, v, a, aa)

\* The same lane without the follow controller, with all its channels bound,
\* on which g-code commands request moves at any of these speeds.
InitRewind ==
  \E c \in Configs, w \in RewindWeights :
    /\ c.rwd /\ c.fwd /\ c.enb /\ c.sensor /\ ~c.follow /\ c.is_pwm /\ c.scale = 1
    /\ c.max_move_dis = max_move_dis
    /\ InitLane(c, w)
    /\ lane = NoLane

NextRewind ==
  \/ RewindMove
  \/ Moving("cmd")
  \/ Rewinding("cmd")
  \/ brake_n20("cmd")
  \/ Sensor
  \/ Tick

SpecRewind == InitRewind /\ [][NextRewind]_vars

\* A lane without wheel sensor, with any of its three channels bound or not
\* and either scale, on which g-code commands request moves.
InitChannels ==
  \E c \in Configs, w \in {empty_spool_weight, WeightCap} :
    /\ ~c.sensor /\ ~c.follow /\ c.is_pwm
    /\ c.max_move_dis = max_move_dis
    /\ InitLane(c, w)
    /\ lane = NoLane

NextChannels ==
  \/ CommandMove
  \/ Moving("cmd")
  \/ brake_n20("cmd")
  \/ Tick

SpecChannels == InitChannels /\ [][NextChannels]_vars

\* The same lane without the follow controller, on which prep_callback makes
\* its load-retry moves while g-code commands request moves.
InitMoves ==
  \E c \in Configs, w \in {empty_spool_weight, WeightCap} :
    /\ c.rwd /\ c.sensor /\ ~c.follow /\ c.is_pwm /\ c.scale = 1
    /\ c.max_move_dis = max_move_dis
    /\ InitLane(c, w)
    /\ lane = NoLane

NextMoves ==
  \/ CommandMove
  \/ RetryMove
  \/ \E p \in Movers : Moving(p)
  \/ \E p \in Movers : brake_n20(p)
  \/ Rewinding("cmd")
  \/ Sensor
  \/ Tick

SpecMoves == InitMoves /\ [][NextMoves]_vars

\* What prep_callback finds at an edge of the prep sensor.  An input that
\* the handler does not consult for this edge is held at FALSE (an invocation
\* that finds prep_active consults none; is_homed is consulted only by a
\* direct lane that requires homing): is_printing
\* implies is_printing(check_movement=True); on a falling edge only the
\* current lane of a printing printer is told apart, and only its runout
\* handling can fail; on a rising edge the current lane is not consulted.
PrepInputs ==
  {i \in [state : BOOLEAN, ready : BOOLEAN, printing : BOOLEAN, busy : BOOLEAN,
          homed : BOOLEAN, current : BOOLEAN, fail1 : BOOLEAN, fail2 : BOOLEAN] :
     /\ i.printing => i.busy
     /\ ~i.ready => ~i.busy /\ ~i.current /\ ~i.fail1 /\ ~i.fail2
     /\ i.state => ~i.current
     /\ ~i.state => (i.current <=> i.printing) /\ (i.busy <=> i.printing)
     /\ i.fail1 \/ i.fail2 => i.current
     /\ i.fail2 => ~i.fail1}

\* the edges of the prep sensor
PrepEdge ==
  \E i \in PrepInputs :
    /\ lane.prep_active => ~(i.ready \/ i.printing \/ i.busy \/ i.homed)
    /\ ~(lane.direct /\ lane.require_home) => ~i.homed
    /\ prep_callback(i.state, i.ready, i.printing, i.busy, i.homed, i.current,
                     i.fail1, i.fail2)

LoadEdge == \E state \in BOOLEAN : load_callback(state)

\* the steps of prep_callback's load branch
Loading ==
  \/ prep_retry
  \/ prep_retry_check
  \/ prep_after
  \/ prep_hub_done

\* the distances between extruder and hub: the default, the threshold of the
\* long move and one beyond it
HubDistances == {dist_hub_default, HubThreshold, HubThreshold + 1}

\* the lanes that are followed: the default lane with each hub distance, a
\* lane that is unloading or ejecting, lanes with a runout lane or with
\* unload_on_runout, direct lanes and a lane without load sensor
PrepLanes ==
  {[NoLane EXCEPT !.dist_hub = d] : d \in HubDistances}
  \cup {[NoLane EXCEPT !.status = "Tool Unloading"],
        [NoLane EXCEPT !.status = "ejecting", !.runout = TRUE],
        [NoLane EXCEPT !.load_to_hub = FALSE, !.unload_on_runout = TRUE],
        [NoLane EXCEPT !.direct = TRUE, !.runout = TRUE],
        [NoLane EXCEPT !.direct = TRUE, !.require_home = TRUE],
        [NoLane EXCEPT !.load = FALSE, !.load_state = TRUE]}

\* One lane without wheel sensor, all its channels bound, whose prep and load
\* sensors change at any time.
InitPrep ==
  \E c \in Configs, l \in PrepLanes :
    /\ c.rwd /\ c.fwd /\ c.enb /\ ~c.sensor /\ ~c.follow /\ c.is_pwm /\ c.scale = 1
    /\ c.max_move_dis = max_move_dis
    /\ InitLane(c, WeightCap)
    /\ lane = l

NextPrep ==
  \/ PrepEdge
  \/ LoadEdge
  \/ set_afc_prep_done
  \/ Loading
  \/ Moving("cb")
  \/ brake_n20("cb")
  \/ Tick

SpecPrep == InitPrep /\ [][NextPrep]_vars

\* the lane of the lane scenario: loaded to the hub, the prep phase done
FollowedLane ==
  [NoLane EXCEPT !.afc_prep_done = TRUE, !.status = "Loaded",
                 !.prep_state = TRUE, !.load_state = TRUE,
                 !.loaded_to_hub = TRUE]

\* One lane with a wheel sensor and all its channels bound that is loaded to
\* the hub and whose load sensor changes at any time, while the follow
\* controller runs and g-code commands move the lane.
InitFollowed ==
  \E c \in Configs :
    /\ c.rwd /\ c.fwd /\ c.enb /\ c.sensor /\ c.follow /\ c.is_pwm /\ c.scale = 1
    /\ c.max_move_dis = max_move_dis
    /\ InitLane(c, WeightCap - 30)
    /\ lane = FollowedLane

NextFollowed ==
  \/ LoadEdge
  \/ CommandMove
  \/ Moving("cmd")
  \/ brake_n20("cmd")
  \/ Rewinding("cmd")
  \/ Follow
  \/ Sensor
  \/ Tick

SpecFollowed == InitFollowed /\ [][NextFollowed]_vars

\* The lanes of the load scenario: both sensors false, the prep phase done,
\* with a load sensor, neither unloading nor ejecting.
LoadLanes ==
  {[l EXCEPT !.afc_prep_done = TRUE] :
     l \in {k \in PrepLanes : k.status = "None" /\ k.load /\ ~k.load_state}}

\* the edge to true of the prep sensor, delivered once while the printer is
\* ready, idle and homed
LoadStart ==
  /\ ~lane.prep_state
  /\ prep_callback(TRUE, TRUE, FALSE, FALSE, lane.direct /\ lane.require_home,
                   FALSE, FALSE, FALSE)

\* the edge to true of the load sensor, delivered during or after the third
\* retry move
LoadReached ==
  /\ lane.prep_active
  /\ lane.x = 3
  /\ ~lane.load_state
  /\ load_callback(TRUE)

\* the steps of a move of prep_callback whose motion backend raises nothing
LoadMoving ==
  \/ move_loop("cb")
  \/ assist_move_enter("cb")
  \/ move_body("cb")
  \/ move_body_done("cb", FALSE)
  \/ assist_move_finally("cb")
  \/ assist_move_clear("cb")
  \/ move_return("cb")

\* the reactor resumes the greenlet of the handler whenever it can run, and
\* the clock advances to its next wake time
LoadRuns == Loading \/ LoadMoving \/ brake_n20("cb") \/ Tick

\* One lane in the load scenario: filament is inserted once, and the load
\* sensor may trigger at the third retry move.
InitLoad ==
  \E c \in Configs, l \in LoadLanes :
    /\ c.rwd /\ c.fwd /\ c.enb /\ ~c.sensor /\ ~c.follow /\ c.is_pwm /\ c.scale = 1
    /\ c.max_move_dis = max_move_dis
    /\ InitLane(c, WeightCap)
    /\ lane = l

NextLoad ==
  \/ LoadStart
  \/ LoadReached
  \/ LoadRuns

SpecLoad == InitLoad /\ [][NextLoad]_vars /\ WF_vars(LoadRuns)

\* the distances of the moves that are cut into segments, in mm: up to 3.5
\* times the longest segment, in either direction
MaxDistance == 35
SegmentDistances == (-MaxDistance .. MaxDistance) \ {0}

\* a g-code command moves the lane by any of these distances
SegmentMove ==
  \E d \in SegmentDistances, aa \in BOOLEAN : move("cmd", d, 50, 400, aa)

\* One lane without wheel sensor, with either limit of the segment length,
\* on which g-code commands request moves of every distance.
InitSegments ==
  \E c \in Configs :
    /\ c.rwd /\ c.fwd /\ c.enb /\ ~c.sensor /\ ~c.follow /\ c.is_pwm /\ c.scale = 1
    /\ InitLane(c, WeightCap)
    /\ lane = NoLane

NextSegments ==
  \/ SegmentMove
  \/ Moving("cmd")
  \/ brake_n20("cmd")
  \/ Tick

SpecSegments == InitSegments /\ [][NextSegments]_vars

\* the remaining weights a lane can start with (spool_weight is any float of
\* the configuration): below, at and just above the empty spool, and around
\* the default, where floats are 4 mg apart
WeightStarts ==
  {empty_spool_weight - 6, empty_spool_weight, empty_spool_weight + 3,
   empty_spool_weight + 30, spool_weight - 4, spool_weight, spool_weight + 4,
   spool_weight + 8}

\* the distances passed to update_remaining_weight, in mm
WeightDistances == {-15, -10, -2, -1, 1, 2, 10, 15}

\* update_remaining_weight(d), called on its own
WeightMove(d) ==
  /\ probe.calls < MaxCalls
  /\ remaining_weight' = update_remaining_weight(remaining_weight, d)
  /\ probe' = [probe EXCEPT !.calls = @ + 1, !.start = remaining_weight,
                            !.distance = d, !.mid = remaining_weight',
                            !.back = FALSE]
  /\ UNCHANGED <<cfg, cur, pc, ret, wake, pulse_count, owed, prev_state,
                 since_sample, pin, wheel_follow_paused, assist_activate, arg,
                 rw, eventtime, hist, lane, obs>>

\* update_remaining_weight(-d), called right after update_remaining_weight(d)
WeightBack ==
  /\ probe.calls > 0
  /\ ~probe.back
  /\ remaining_weight' = update_remaining_weight(remaining_weight, -probe.distance)
  /\ probe' = [probe EXCEPT !.back = TRUE]
  /\ UNCHANGED <<cfg, cur, pc, ret, wake, pulse_count, owed, prev_state,
                 since_sample, pin, wheel_follow_paused, assist_activate, arg,
                 rw, eventtime, hist, lane, obs>>

\* One lane whose remaining weight is updated by calls of
\* update_remaining_weight with any distances.
InitWeight ==
  \E c \in Configs, w \in WeightStarts :
    /\ c.rwd /\ c.fwd /\ c.enb /\ ~c.sensor /\ ~c.follow /\ c.is_pwm /\ c.scale = 1
    /\ c.max_move_dis = max_move_dis
    /\ InitLane(c, w)
    /\ lane = NoLane

NextWeight ==
  \/ \E d \in WeightDistances : WeightMove(d)
  \/ WeightBack

SpecWeight == InitWeight /\ [][NextWeight]_vars

\* the feed rates passed to calculate_pwm_value, in mm/s, and the weights of
\* the lane it is called for
FeedRates == {-50, 0, 20, 50, 150, 400}

PwmWeights ==
  {empty_spool_weight - 6, empty_spool_weight, empty_spool_weight + 30,
   500000, spool_weight}

\* calculate_pwm_value(feed_rate, rewind), called on its own
PwmCall(feed_rate, rewind) ==
  /\ probe.calls < MaxCalls
  /\ probe' = [probe EXCEPT
                !.calls = @ + 1,
                !.last = probe.call,
                !.call = [weight |-> remaining_weight, feed_rate |-> feed_rate,
                          rewind |-> rewind,
                          value |-> calculate_pwm_value(remaining_weight,
                                                        feed_rate, rewind)]]
  /\ UNCHANGED <<cfg, cur, pc, ret, wake, pulse_count, owed, prev_state,
                 since_sample, pin, wheel_follow_paused, assist_activate,
                 remaining_weight, arg, rw, eventtime, hist, lane, obs>>

\* update_remaining_weight(d) between two calls of calculate_pwm_value
PwmWeigh(d) ==
  /\ probe.calls < MaxCalls
  /\ remaining_weight' = update_remaining_weight(remaining_weight, d)
  /\ remaining_weight' # remaining_weight
  /\ probe' = [probe EXCEPT !.calls = @ + 1]
  /\ UNCHANGED <<cfg, cur, pc, ret, wake, pulse_count, owed, prev_state,
                 since_sample, pin, wheel_follow_paused, assist_activate, arg,
                 rw, eventtime, hist, lane, obs>>

\* One lane whose duty is calculated for any feed rates, in both directions,
\* while its remaining weight changes.
InitPwm ==
  \E c \in Configs, w \in PwmWeights :
    /\ c.rwd /\ c.fwd /\ c.enb /\ ~c.sensor /\ ~c.follow /\ c.is_pwm /\ c.scale = 1
    /\ c.max_move_dis = max_move_dis
    /\ InitLane(c, w)
    /\ lane = NoLane

NextPwm ==
  \/ \E f \in FeedRates, r \in BOOLEAN : PwmCall(f, r)
  \/ \E d \in WeightDistances : PwmWeigh(d)

SpecPwm == InitPwm /\ [][NextPwm]_vars

\* the distances, speeds and accelerations passed to calc_move_time: the
\* segments and the parameters of the moves of the lane, and an acceleration
\* of 0
TimedDistances == {-35, -10, -4, 0, 1, 4, 10, 15, 35}

TimedSpeeds == {RetrySpeed, short_moves_speed, long_moves_speed}

TimedAccels == {0, 100, RetryAccel, short_moves_accel, long_moves_accel}

\* calc_move_time(dist, speed, accel), called on its own
MoveTimeCall(dist, speed, accel) ==
  /\ probe.calls < MaxCalls
  /\ LET m == calc_move_time(dist, speed, accel)
     IN  probe' = [probe EXCEPT
                     !.calls = @ + 1,
                     !.time = [dist |-> dist, speed |-> speed, accel |-> accel,
                               axis_r |-> m.axis_r, accel_t |-> m.accel_t,
                               cruise_t |-> m.cruise_t, cruise_v |-> m.speed]]
  /\ UNCHANGED <<cfg, cur, pc, ret, wake, pulse_count, owed, prev_state,
                 since_sample, pin, wheel_follow_paused, assist_activate,
                 remaining_weight, arg, rw, eventtime, hist, lane, obs>>

\* One lane for whose moves calc_move_time is called with any parameters.
InitMoveTime ==
  \E c \in Configs :
    /\ c.rwd /\ c.fwd /\ c.enb /\ ~c.sensor /\ ~c.follow /\ c.is_pwm /\ c.scale = 1
    /\ c.max_move_dis = max_move_dis
    /\ InitLane(c, WeightCap)
    /\ lane = NoLane

NextMoveTime ==
  \E d \in TimedDistances, v \in TimedSpeeds, a \in TimedAccels :
    MoveTimeCall(d, v, a)

SpecMoveTime == InitMoveTime /\ [][NextMoveTime]_vars

\* --------------------------------------------------------------- properties
\* the greenlet p is inside an assist session that commands the motor: from
\* its first command up to the end of its stop or brake sequence
StreamLabels ==
  {"rw_init", "rw_base_loop", "rw_base_pause", "rw_base_end", "rw_reg_loop",
   "rw_reg_check", "rw_reg_pause", "rw_stop", "brake_dwell"}

InSession(p) ==
  /\ arg[p].assist_active
  /\ \/ pc[p] \in StreamLabels
     \/ ~RewindPath(p) /\ pc[p] \in {"body", "body_wait", "am_finally"}

\* the greenlet p is inside rewind_until_tension
InRewind(p) == rw[p].run # None

AllStopped == pin = [rwd |-> 0, fwd |-> 0, enb |-> 0]

\* C1: a tick of the follow handler that finds _wheel_follow_paused set
\* writes no channel, takes no sample and changes no state of the follow
\* controller; it only returns its next wake time.
C1_PausedTickIsSilent ==
  [][ /\ (wheel_follow_paused /\ \E adv \in BOOLEAN : wheel_follow_handler(adv))
         => /\ pc'["follow"] = "fh_ret"
            /\ UNCHANGED <<pin, hist, pulse_count, since_sample, assist_activate>>
      /\ (pc["follow"] = "fh_ret" /\ wheel_follow_return)
         => /\ pc'["follow"] = "wait"
            /\ UNCHANGED <<pin, hist, pulse_count, since_sample, assist_activate>>
    ]_vars

\* a tick of the follow handler has found the flag set while a foreground
\* rewind was commanding the motor
C1_PausedTickSeen ==
  /\ pc["follow"] = "fh_ret"
  /\ wheel_follow_paused
  /\ InSession("cmd")
  /\ hist.last_by = "cmd"

\* C2: _wheel_follow_paused is clear only while no foreground assist session
\* is commanding the motor, whatever other move finishes meanwhile.
C2_ClearOnlyWhenQuiet ==
  wheel_follow_paused \/ \A p \in Movers : ~InSession(p)

\* C3: every step that ends an assist session (the return of assist_move or
\* an exception leaving it) leaves _wheel_follow_paused clear.
C3_ExitClearsFlag ==
  [][ \A p \in Movers :
        ( /\ arg[p].assist_active
          /\ pc[p] \notin {"idle", "move_loop", "raised"}
          /\ pc'[p] \in {"move_loop", "raised"} )
        => ~wheel_follow_paused' ]_vars

\* C4: when rewind_until_tension is left, by return or by exception, after
\* it has started the motor, the last value it passed to assist is zero.
C4_RewindEndsWithZero ==
  \A p \in Movers :
    (pc[p] \in {"rw_ret", "rw_raise"} /\ rw[p].started) => rw[p].last_cmd = 0

\* C5: once assist(0) has completed, and until the next command, every
\* channel is at zero.
C5_ZeroStopsAllChannels == hist.zero_done => AllStopped

\* C6: outside the dwell of the brake sequence the reverse and the forward
\* channel are never both non-zero.
C6_OneDirection ==
  (\E p \in Procs : pc[p] = "brake_dwell") \/ ~(pin.rwd > 0 /\ pin.fwd > 0)

\* C7: rewind_until_tension is never stuck, and it is left at most
\* 2.0 s + tension_max_time + one polling interval after it was called.
C7_RewindBounded ==
  \A p \in Movers :
    InRewind(p) =>
      /\ rw[p].run <= BaselineTimeout + TensionMaxTime + 1
      /\ IF cur = p THEN ENABLED Rewinding(p)
         ELSE pc[p] \in PauseLabels /\ (wake[p] <= 0 => cur # "none" \/ ENABLED
                (rewind_resume(p) \/ brake_n20(p)))

\* a rewind that found its baseline late returns after the longest run
C7_LongRewindSeen ==
  \E p \in Movers :
    /\ pc[p] = "rw_ret"
    /\ rw[p].run >= BaselineTimeout + BrakeDelay

\* C8: a rewind whose baseline loop found no sample above the minimum leaves
\* that loop only once 2.0 s have elapsed; it then commands zero and returns:
\* it takes no regulation sample and raises nothing.
C8_NoBaselineAborts ==
  \A p \in Movers :
    (rw[p].elapsed # None /\ rw[p].baseline_rpm = None) =>
      /\ pc[p] \in {"rw_base_loop", "rw_base_pause", "rw_base_end",
                    "brake_dwell", "rw_ret"}
      /\ pc[p] \in {"rw_base_end", "brake_dwell", "rw_ret"}
           => rw[p].elapsed >= BaselineTimeout
      /\ pc[p] = "brake_dwell" => ret[p] = "rw_ret" /\ rw[p].last_cmd = 0
      /\ pc[p] = "rw_ret" => rw[p].last_cmd = 0 /\ hist.zero_done

\* a rewind returns after its baseline loop has timed out
C8_AbortSeen ==
  \E p \in Movers :
    /\ pc[p] = "rw_ret"
    /\ rw[p].started
    /\ rw[p].elapsed # None
    /\ rw[p].baseline_rpm = None

\* C9: after the first regulation sample below the cutoff the loop takes no
\* further sample and does not pause; and the loop is left only by such a
\* sample or by the time limit, never by a sample without data.
C9_CutoffEndsRegulation ==
  \A p \in Movers :
    /\ rw[p].hit => pc[p] \in {"rw_reg_check", "brake_dwell", "rw_stop", "rw_ret"}
    /\ (rw[p].hit /\ pc[p] = "brake_dwell") => ret[p] \in {"rw_reg_check", "rw_ret"}
    /\ pc[p] = "rw_stop" => rw[p].hit \/ rw[p].elapsed >= TensionMaxTime
    /\ (pc[p] = "rw_stop" /\ rw[p].wheel_rpm = None) => rw[p].elapsed >= TensionMaxTime

\* the regulation loop has been left by a sample below the cutoff, before
\* the time limit and after at least one pause
C9_CutoffSeen ==
  \E p \in Movers :
    /\ pc[p] = "rw_stop"
    /\ rw[p].hit
    /\ rw[p].elapsed < TensionMaxTime
    /\ rw[p].elapsed > 0

\* C10: one invocation of prep_callback makes at most 40 turns of its
\* load-retry loop, that is at most 40 retry moves.
C10_AtMostFortyRetries == lane.x <= RetryLimit

\* C11: once the load-retry loop has given up (the failed-to-load fault has
\* been reported), the same invocation of prep_callback neither hands the
\* lane to TOOL_LOAD nor moves it to the hub.
C11_ExhaustionHalts ==
  obs.fault = "failed_to_load" => ~obs.tool_load /\ ~obs.hub_move

\* C12: while an invocation of prep_callback is in its decision logic
\* (also while it waits in a pause or a move) the guard prep_active is set,
\* and an edge of the prep sensor that finds the guard set only records the
\* level and the time of the edge: it starts no decision logic, requests
\* nothing of a collaborator, commands no move and leaves the guard set.
C12_NestedEdgeOnlyRecords ==
  /\ [](pc["cb"] # "idle" => lane.prep_active)
  /\ [][ (lane.prep_active /\ PrepEdge)
           => /\ \E state \in BOOLEAN :
                   lane' = [lane EXCEPT !.prep_state = state, !.since_prep = 0]
              /\ UNCHANGED <<pc, cur, obs, arg, wake, pin, hist>> ]_vars

\* an edge to false has been recorded while the invocation that runs the
\* load-retry loop waits for its move or for its pause
C12_NestedEdgeSeen ==
  /\ pc["cb"] \in {"body_wait", "prep_pause"}
  /\ lane.prep_active
  /\ ~lane.prep_state
  /\ lane.since_prep = 0

\* C13: every invocation of prep_callback that has returned has called
\* save_vars, whichever way it took through the handler.
C13_EveryReturnSaves == obs.returned => obs.saved

\* C14: whenever no invocation of prep_callback is executing for the lane
\* (none is in its decision logic, in a move or in a pause), the guard
\* prep_active is clear.
C14_GuardClearWhenIdle == pc["cb"] = "idle" => ~lane.prep_active

\* C15: an edge to false of the prep sensor that is handled (printer ready,
\* prep phase done, no invocation in flight, lane neither unloading nor
\* ejecting, not rejected for homing) for the current lane of a printing
\* printer pauses the printer, whatever the level of the load sensor.
C15_FallingEdgePauses ==
  [][ \A i \in PrepInputs :
        ( /\ ~i.state /\ i.ready /\ i.printing /\ i.current
          /\ lane.afc_prep_done
          /\ ~lane.prep_active
          /\ lane.status \notin {"Tool Unloading", "ejecting"}
          /\ (lane.direct /\ lane.require_home) => i.homed
          /\ prep_callback(i.state, i.ready, i.printing, i.busy, i.homed,
                           i.current, i.fail1, i.fail2) )
        => obs'.paused ]_vars

\* C16: when the runout handling of a lane with a runout lane meets a
\* failure in a step of the swap (CHANGE_TOOL or LANE_UNLOAD ends with
\* error_state set), the handler neither restores the toolhead position nor
\* sends the resume command.
C16_FailedSwapStaysPaused ==
  [][ \A i \in PrepInputs :
        ( /\ lane.runout
          /\ ~lane.prep_active
          /\ (lane.direct /\ lane.require_home) => i.homed
          /\ PrepBranch([lane EXCEPT !.prep_state = i.state], lane.since_prep,
                        i.ready, i.printing, i.busy, i.current) = "runout"
          /\ i.fail1 \/ i.fail2
          /\ prep_callback(i.state, i.ready, i.printing, i.busy, i.homed,
                           i.current, i.fail1, i.fail2) )
        => ~obs'.resumed /\ ~obs'.restored ]_vars

\* C17: an edge to true of the prep sensor that is handled (the gate of the
\* handler passed, no invocation in flight, not rejected for homing) while
\* the load sensor is true and the printer is not printing reports the
\* stuck-sensor fault and nothing else: no stepper is enabled, no move and
\* no collaborator is commanded, and status, loaded_to_hub and tool_loaded
\* (with every other field of the lane but the recorded edge) stay as they
\* were; the invocation persists and returns.
C17_StuckOnlyReports ==
  [][ \A i \in PrepInputs :
        ( /\ i.state /\ lane.load_state /\ ~i.printing
          /\ i.ready /\ lane.afc_prep_done /\ lane.status # "Tool Unloading"
          /\ ~lane.prep_active
          /\ (lane.direct /\ lane.require_home) => i.homed
          /\ prep_callback(i.state, i.ready, i.printing, i.busy, i.homed,
                           i.current, i.fail1, i.fail2) )
        => /\ obs' = [NoObs EXCEPT !.fault = "stuck", !.saved = TRUE,
                                   !.returned = TRUE, !.branch = "stuck"]
           /\ lane' = [lane EXCEPT !.prep_state = TRUE, !.since_prep = 0]
           /\ UNCHANGED <<pc, cur, arg, wake, pin, hist>> ]_vars

\* the stuck-sensor fault has been reported for a lane that was loaded to
\* the hub, and the lane is still loaded
C17_StuckSeen ==
  /\ obs.fault = "stuck"
  /\ obs.returned
  /\ lane.status = "Loaded"
  /\ lane.loaded_to_hub
  /\ lane.prep_state
  /\ lane.load_state
  /\ lane.since_prep = 0

\* the load sensor has turned true at the third retry move of the invocation
\* that a rising prep edge started
LoadedAtThird == lane.prep_active /\ lane.x = 3 /\ lane.load_state

\* the handler has returned with the lane 'Loaded' (and loaded to the hub if
\* load_to_hub is configured), its stepper disabled and the guard released
LoadDone ==
  /\ pc["cb"] = "idle"
  /\ obs.returned
  /\ lane.status = "Loaded"
  /\ lane.load_to_hub => lane.loaded_to_hub
  /\ ~lane.enabled
  /\ ~lane.prep_active

RECURSIVE SegmentSum(_)
SegmentSum(q) == IF q = <<>> THEN 0 ELSE Head(q) + SegmentSum(Tail(q))

C20_OneSessionPerMove ==
  \A p \in Movers :
    ( /\ arg[p].assist_active
      /\ pc[p] = "move_loop"
      /\ arg[p].issued # <<>>
      /\ arg[p].move_total > 0 )
    => wheel_follow_paused

\* the follow handler, fired in this step, calls assist
FollowCommands ==
  /\ pc["follow"] = "wait"
  /\ pc'["follow"] \in {"fh_on", "fh_off", "brake_dwell"}

\* C21: the follow controller commands the motor only when its condition
\* changes: each of its commands is the follow duty or zero, its first one
\* is the follow duty, and each differs from its previous one, so a run of
\* ticks with the same condition holds at most one command.
C21_FollowCommandsAlternate ==
  [][ FollowCommands
        => /\ hist'.follow_last \in {0, FollowDuty}
           /\ hist'.follow_last # hist.follow_last
           /\ hist.follow_last = None => hist'.follow_last = FollowDuty
           /\ hist'.follow_last = FollowDuty <=> pc'["follow"] = "fh_on" ]_vars

\* the follow controller has commanded zero after it had commanded the
\* follow duty
C21_FollowStopSeen ==
  /\ pc["follow"] = "fh_off"
  /\ hist.follow_last = 0
  /\ assist_activate

\* C22: after a tick of the follow handler that finds _wheel_follow_paused
\* clear, the last motor command of the lane is the follow duty if the tick
\* sampled rpm >= wheel_follow_min_rpm, and zero if it sampled less or
\* nothing, whatever was commanded before the tick.
C22_TickEnsuresAssist ==
  [][ \A adv \in BOOLEAN :
        (~wheel_follow_paused /\ wheel_follow_handler(adv))
        => LET s == get_rpm(adv)
           IN  IF s.rpm # None /\ s.rpm >= wheel_follow_min_rpm
               THEN hist'.last_value = FollowDuty
               ELSE hist'.last_value = 0 ]_vars

\* the step is a call of get_rpm (by the follow handler or by a turn of a
\* loop of rewind_until_tension) that reads the clock as adv says
Samples(adv) ==
  \/ ~FollowYields /\ wheel_follow_handler(adv)
  \/ \E p \in Movers :
       \/ BaselineRunning(p) /\ rewind_baseline(p, adv)
       \/ RegulationRunning(p) /\ rewind_regulate(p, adv)

\* C23: however edge callbacks and get_rpm calls interleave, the rising
\* edges delivered and not yet taken by a successful get_rpm are exactly the
\* pulses in the accumulator; a successful get_rpm takes them all and
\* restarts the interval, and a get_rpm that has no data (dt <= 0) leaves
\* the accumulator and the timestamp as they were.
C23_PulsesConserved ==
  /\ [](owed = pulse_count)
  /\ [][ \A adv \in BOOLEAN :
           Samples(adv)
           => LET s == get_rpm(adv)
              IN  IF s.rpm = None
                  THEN UNCHANGED <<pulse_count, since_sample, owed>>
                  ELSE /\ s.pulses = pulse_count
                       /\ pulse_count' = 0
                       /\ owed' = 0
                       /\ since_sample' = 0 ]_vars

\* a get_rpm of the follow handler has just taken the pulses counted since
\* the previous sample (it found rpm >= wheel_follow_min_rpm, so there were
\* some) while the sensor line is high, and nothing is owed
C23_PulsesTakenSeen ==
  /\ cur = "follow"
  /\ pc["follow"] = "fh_on"
  /\ prev_state
  /\ pulse_count = 0
  /\ owed = 0
  /\ since_sample = 0

\* C24: after any calls of update_remaining_weight, with any distances and
\* from any configured weight, remaining_weight is not below
\* empty_spool_weight.
C24_WeightNotBelowEmpty ==
  probe.calls > 0 => remaining_weight >= empty_spool_weight

\* a call has raised a weight that was configured below the empty spool
\* to the floor although it added filament
C24_FloorSeen ==
  /\ probe.calls = 1
  /\ probe.start < empty_spool_weight
  /\ probe.distance < 0
  /\ remaining_weight = empty_spool_weight

\* update_remaining_weight(d) and then update_remaining_weight(-d) have been
\* called from a weight that is not below the empty spool, and neither call
\* was floored
RoundTripDone ==
  /\ probe.back
  /\ probe.start >= empty_spool_weight
  /\ ~BelowEmpty(Float(probe.start - Float(WeightChange(probe.distance))))
  /\ ~BelowEmpty(Float(probe.mid - Float(WeightChange(-probe.distance))))

C26_PwmMonotoneInRange ==
  probe.call # NoCall =>
    /\ probe.call.value \in 0..DutyOne
    /\ probe.call.weight <= empty_spool_weight => probe.call.value = 0
    /\ ( /\ probe.last # NoCall
         /\ probe.last.weight = probe.call.weight
         /\ probe.last.rewind = probe.call.rewind
         /\ probe.last.feed_rate <= probe.call.feed_rate )
       => probe.last.value <= probe.call.value

\* two calls for the same weight above the empty spool, the second with a
\* higher feed rate and a higher value that the clamp had to cut to 1
C26_PwmRisenSeen ==
  /\ probe.last # NoCall
  /\ probe.last.weight = probe.call.weight
  /\ probe.call.weight > empty_spool_weight
  /\ probe.last.rewind /\ probe.call.rewind
  /\ probe.last.feed_rate < probe.call.feed_rate
  /\ 0 < probe.last.value /\ probe.last.value < probe.call.value
  /\ probe.call.value = DutyOne

\* C27: until set_afc_prep_done has been called, an invocation of
\* prep_callback, whatever the printer's state, only records the sensor level
\* and the edge time: it does not enable the stepper, command a move or the
\* motor, pause the printer, hand the lane to a tool load or unload, or
\* change status, loaded_to_hub or tool_loaded.
C27_NothingBeforePrepDone ==
  [][ \A i \in PrepInputs :
        ( /\ ~lane.afc_prep_done
          /\ prep_callback(i.state, i.ready, i.printing, i.busy, i.homed,
                           i.current, i.fail1, i.fail2) )
        => /\ lane' = [lane EXCEPT !.prep_state = i.state, !.since_prep = 0]
           /\ lane'.enabled = lane.enabled
           /\ lane'.status = lane.status
           /\ lane'.loaded_to_hub = lane.loaded_to_hub
           /\ lane'.tool_loaded = lane.tool_loaded
           /\ ~obs'.paused /\ ~obs'.resumed /\ ~obs'.changed /\ ~obs'.unloaded
           /\ ~obs'.tool_load /\ ~obs'.hub_move
           /\ UNCHANGED <<arg, pin, pc, cur, hist>> ]_vars

\* before set_afc_prep_done, the handler has returned from a rising edge of
\* the prep sensor of a lane whose load sensor is clear, and the lane is as
\* it was
C27_EarlyEdgeSeen ==
  /\ ~lane.afc_prep_done
  /\ lane.prep_state /\ ~lane.load_state
  /\ lane.since_prep = 0
  /\ obs.returned /\ obs.saved
  /\ ~lane.enabled /\ lane.status = "None" /\ ~lane.prep_active
  /\ pc["cb"] = "idle"

\* the position of the call c in the sequence of calls s, 0 when it is not
\* in it
Position(s, c) ==
  IF \E k \in 1..Len(s) : s[k] = c
  THEN CHOOSE k \in 1..Len(s) : s[k] = c
  ELSE 0

\* C28: when the runout handling of a lane with a runout lane meets no
\* error, its calls are, in this order: the pause command, save_pos, the tool
\* change to the runout lane, the remap, the unload of the empty lane,
\* restore_pos and the resume command; and whatever the errors, the pause
\* command comes first and a resume command only after the unload.
C28_SwapInOrder ==
  [][ \A i \in PrepInputs :
        ( /\ prep_callback(i.state, i.ready, i.printing, i.busy, i.homed,
                           i.current, i.fail1, i.fail2)
          /\ obs'.changed )
        => /\ lane.runout
           /\ obs'.order[1] = "send_pause_command"
           /\ Position(obs'.order, "send_resume_command") # 0
                => /\ Position(obs'.order, "LANE_UNLOAD") # 0
                   /\ Position(obs'.order, "LANE_UNLOAD")
                        < Position(obs'.order, "send_resume_command")
           /\ ~(lane.error_state \/ i.fail1)
                => obs'.order =
                     <<"send_pause_command", "save_pos", "CHANGE_TOOL",
                       "SET_MAP", "LANE_UNLOAD", "restore_pos",
                       "send_resume_command">> ]_vars

\* the runout handling of a lane with a runout lane has met no error and has
\* made its seven calls
C28_SwapSeen ==
  /\ lane.runout /\ ~lane.error_state
  /\ ~lane.prep_state /\ lane.load_state
  /\ obs.changed /\ obs.resumed
  /\ Len(obs.order) = 7

\* the mover p calls get_rpm in a turn of the baseline or of the regulation
\* loop of rewind_until_tension
RewindSamples(p, adv) ==
  \/ BaselineRunning(p) /\ rewind_baseline(p, adv)
  \/ RegulationRunning(p) /\ rewind_regulate(p, adv)

\* C29: between any two consecutive get_rpm calls of one run of
\* rewind_until_tension, the last of the baseline loop and the first of the
\* regulation loop included, the 0.1 s pause of a loop takes place.
C29_PauseBetweenSamples ==
  [][ \A p \in Movers, adv \in BOOLEAN :
        RewindSamples(p, adv) => ~rw[p].polled ]_vars

\* C30: throughout rewind_until_tension the duty and every value passed to
\* assist lie in [-1, 0], and a regulation sample changes the duty by at most
\* 0.05: towards -1 when wheel_rpm < 0.9 * baseline, towards 0 when
\* wheel_rpm > 1.1 * baseline, and not at all otherwise or without data; the
\* changed duty is passed to assist.
C30_DutyInRangeSmallSteps ==
  /\ [](\A p \in Movers :
          InRewind(p) => /\ rw[p].pwm_val \in (-DutyOne)..0
                         /\ rw[p].last_cmd \in (-DutyOne)..0
                         /\ hist.last_by = p => hist.last_value \in (-DutyOne)..0)
  /\ [][ \A p \in Movers, adv \in BOOLEAN :
           (RegulationRunning(p) /\ rewind_regulate(p, adv)) =>
             LET s == get_rpm(adv)
                 target_rpm == rw[p].baseline_rpm
                 was == rw[p].pwm_val
                 now == rw'[p].pwm_val
             IN  IF s.rpm = None THEN now = was /\ UNCHANGED <<pin, hist>>
                 ELSE IF s.rpm * 10 < target_rpm * 9
                 THEN /\ was - 1 <= now /\ now <= was
                      /\ now = was => was = -DutyOne
                      /\ hist'.last_by = p /\ hist'.last_value = now
                 ELSE IF s.rpm * 10 > target_rpm * 11
                 THEN /\ was <= now /\ now <= was + 1
                      /\ now = was => was = 0
                      /\ hist'.last_by = p /\ hist'.last_value = now
                 ELSE now = was /\ UNCHANGED <<pin, hist>> ]_vars

\* a rewind at full duty has met a sample below 0.9 * baseline, has passed
\* its duty to assist again and has kept it at -1
C30_FullDutySeen ==
  \E p \in Movers :
    /\ InRewind(p)
    /\ pc[p] = "rw_reg_check"
    /\ rw[p].baseline_rpm # None
    /\ rw[p].wheel_rpm # None
    /\ rw[p].wheel_rpm * 10 < rw[p].baseline_rpm * 9
    /\ rw[p].pwm_val = -DutyOne
    /\ rw[p].last_cmd = -DutyOne
    /\ hist.last_by = p /\ hist.last_value = -DutyOne

\* C31: every segment that move passes to _move updates the remaining weight
\* by the weight of that segment's filament, whether or not the assist is
\* active for the move.
C31_EverySegmentWeighs ==
  [][ \A p \in Movers :
        (move_loop(p) /\ arg[p].move_total > 0)
        => remaining_weight' =
             update_remaining_weight(remaining_weight, arg'[p].move_value) ]_vars

\* C32: when the load-retry loop has given up after its last retry, the
\* handler returns with the lane's status set to a fault status: not the ''
\* that a load attempt ended by the removal of the filament leaves.
C32_ExhaustionMarksFault ==
  (pc["cb"] = "idle" /\ obs.returned /\ obs.fault = "failed_to_load")
  => lane.status # ""

\* C33: an edge of the prep sensor to true, with the load sensor false, less
\* than 1.0 s after the previous invocation of the handler (one that
\* returned at once because a handler was in flight included) starts no load
\* attempt: the stepper is not enabled, no move and no motor command is
\* made, status and loaded_to_hub stay, and the guard is as it was, released
\* when no handler was in flight.
C33_TooSoonStartsNothing ==
  [][ \A i \in PrepInputs :
        ( /\ i.state /\ ~lane.load_state
          /\ lane.since_prep < DebounceTicks
          /\ prep_callback(i.state, i.ready, i.printing, i.busy, i.homed,
                           i.current, i.fail1, i.fail2) )
        => /\ lane'.enabled = lane.enabled
           /\ lane'.status = lane.status
           /\ lane'.loaded_to_hub = lane.loaded_to_hub
           /\ lane'.prep_active = lane.prep_active
           /\ \/ UNCHANGED obs
              \/ ~obs'.hub_move /\ ~obs'.tool_load /\ ~obs'.paused
           /\ UNCHANGED <<arg, pin, pc, cur, hist>> ]_vars

\* with the prep phase done, the handler has returned from a rising edge that
\* came too soon after the previous one, and has started nothing
C33_TooSoonSeen ==
  /\ obs.branch = "debounce"
  /\ obs.returned
  /\ lane.afc_prep_done
  /\ lane.prep_state /\ ~lane.load_state
  /\ ~lane.prep_active /\ ~lane.enabled
  /\ pc["cb"] = "idle"

\* the lane state that the state machine owns
Owned ==
  <<lane.status, lane.loaded_to_hub, lane.tool_loaded, lane.prep_state,
    lane.load_state, lane.prep_active, remaining_weight>>

\* C34: every step of _wheel_follow_handler and of rewind_until_tension
\* leaves status, loaded_to_hub, tool_loaded, prep_state, load_state,
\* prep_active and remaining_weight unchanged.
C34_ControllersKeepLaneState ==
  [][ (Follow \/ \E p \in Movers : Rewinding(p)) => UNCHANGED Owned ]_vars

\* after an edge of the load sensor and a move that has added the rewound
\* filament to the weight, the follow controller has just started the motor,
\* or a rewind has just ended
C34_ControllersRanSeen ==
  /\ lane.status = "Loaded" /\ ~lane.load_state /\ lane.loaded_to_hub
  /\ remaining_weight = WeightCap
  /\ \/ pc["follow"] = "fh_on"
     \/ pc["cmd"] = "rw_ret"

\* C36: assist(value) with value > 0 drives the forward channel at
\* value / scale, and raises the enable channel when there is one, whenever
\* a forward channel is bound, whether or not the reverse and enable channels
\* are; it writes nothing only when the forward channel is absent.
C36_ForwardDrivesForward ==
  [][ \A p \in Movers :
        ( /\ assist_move_enter(p)
          /\ arg[p].assist_active /\ ~RewindPath(p)
          /\ hist'.last_by = p /\ hist'.last_value > 0 )
        => IF cfg.fwd
           THEN /\ pin'.fwd = hist'.last_value
                /\ cfg.enb => pin'.enb = PinOne
           ELSE pin' = pin ]_vars

\* C35: no tick of _wheel_follow_handler issues a nonzero motor command
\* while the printer is not printing.  Whether the printer is printing is no
\* input of the handler: a tick with the printer idle is any tick.
C35_FollowOnlyWhilePrinting ==
  [][ \A adv \in BOOLEAN, printing \in BOOLEAN :
        (~printing /\ wheel_follow_handler(adv))
        => ~(pc'["follow"] = "fh_on" /\ hist'.last_value # 0) ]_vars

\* a call of calc_move_time with a distance and an acceleration other than 0
\* has returned
Timed == probe.calls > 0 /\ probe.time.dist # 0 /\ probe.time.accel # 0

\* C37: calc_move_time(d, v, a) with v > 0, a > 0 and d # 0 returns the sign
\* of d, a peak velocity v' <= v, v itself or the square root of |d| * a
\* rounded to the nearest value, the acceleration time v' / a and a cruise
\* time with t_a * v' + cruise_t * v' = |d|, each up to the rounding of the
\* operation that computes it; the duration 2 * t_a + cruise_t, for which
\* _move waits, is positive.
\* With a = 0 or d = 0 it returns t_a = 0 and cruise_t = |d| / v, rounded.
C37_MoveTimeWithinRounding ==
  LET t == probe.time
      d == Abs(t.dist)
  IN  /\ Timed =>
           /\ t.axis_r = (IF t.dist < 0 THEN -1 ELSE 1)
           /\ 0 < t.cruise_v /\ t.cruise_v <= t.speed
           /\ \/ t.cruise_v = t.speed /\ t.speed * t.speed <= d * t.accel
              \/ /\ (2 * t.cruise_v - 1) * (2 * t.cruise_v - 1) <= 4 * d * t.accel
                 /\ 4 * d * t.accel <= (2 * t.cruise_v + 1) * (2 * t.cruise_v + 1)
           /\ 2 * Abs(t.accel_t * t.accel - t.cruise_v * 1000) <= t.accel
           /\ 2 * Abs(t.accel_t * t.cruise_v + t.cruise_t * t.cruise_v - d * 1000)
                <= t.cruise_v
           /\ 2 * t.accel_t + t.cruise_t > 0
           /\ MoveTicks(t.dist, t.speed, t.accel)
                = CeilDiv((2 * t.accel_t + t.cruise_t) * TicksPerSec, 1000)
      /\ (probe.calls > 0 /\ ~Timed) =>
           /\ t.accel_t = 0
           /\ t.cruise_v = t.speed
           /\ 2 * Abs(t.cruise_t * t.speed - d * 1000) <= t.speed

\* C37 as stated: the peak velocity squared is at most |d| * a, the cruise
\* time is never negative and the distances add up to |d|
C37_MoveTimeExact ==
  LET t == probe.time
      d == Abs(t.dist)
  IN  Timed =>
        /\ t.cruise_v * t.cruise_v <= d * t.accel
        /\ t.cruise_t >= 0
        /\ t.accel_t * t.cruise_v + t.cruise_t * t.cruise_v = d * 1000

\* a move that cannot reach its speed has been timed: its peak velocity is a
\* rounded square root below the speed asked for
C37_LimitedMoveSeen ==
  /\ Timed
  /\ probe.time.cruise_v < probe.time.speed
  /\ probe.time.accel_t > 0

\* C38: the hub-load move of prep_callback runs with assist exactly when it
\* uses the long-move speed and acceleration, and without assist exactly when
\* it uses the short-move ones, for every dist_hub.
C38_HubThresholdConsistent ==
  ( /\ obs.hub_move /\ ~obs.returned
    /\ pc["cb"] \notin {"idle", "prep_after", "prep_loop", "prep_pause"}
    /\ arg["cb"].distance = lane.dist_hub )
  => /\ arg["cb"].assist_active
          <=> ( /\ arg["cb"].speed = long_moves_speed
                /\ arg["cb"].accel = long_moves_accel )
     /\ ~arg["cb"].assist_active
          <=> ( /\ arg["cb"].speed = short_moves_speed
                /\ arg["cb"].accel = short_moves_accel )

\* no handler of the prep sensor is running, and the last one that ran was
\* neither turned away by the printer's state, by the prep phase or by the
\* homing check, nor a runout
Quiescent ==
  /\ cur = "none"
  /\ pc["cb"] = "idle"
  /\ ~lane.prep_active
  /\ lane.afc_prep_done
  /\ obs.returned
  /\ obs.branch \in {"load", "debounce", "busy", "stuck", "clear"}
  /\ obs.fault # "not_homed"

\* C39: with the printer ready and the prep phase complete, whenever no handler
\* of the prep sensor is in flight and the prep sensor is false, loaded_to_hub
\* is false and the status is not 'Loaded', whatever the timing of the edges
\* during a load attempt.
C39_RemovedLaneIsCleared ==
  (Quiescent /\ ~lane.tool_loaded /\ ~lane.prep_state)
  => ~lane.loaded_to_hub /\ lane.status # "Loaded"

\* greenlet p is in a rewind segment, between the call of
\* rewind_until_tension and the statement after assist_move's yield
RewindSegment(p) ==
  /\ RewindPath(p)
  /\ pc[p] \in {"rw_start", "rw_init", "rw_base_loop", "rw_base_pause", "rw_base_end",
                "rw_reg_loop", "rw_reg_check", "rw_reg_pause", "rw_stop", "rw_ret",
                "brake_dwell", "body", "body_wait", "am_exit_rw"}

====
